---- MODULE Spec2Model ----
(***************************************************************************)
(* A model of the KS3 storage driver (package ks3), of the archive service *)
(* and the metadata patching of the file manager (package manager), of the *)
(* SMTP pool (package email) and of the schema migration (package          *)
(* inventory) of Cloudreve.                                                *)
(*                                                                         *)
(* The driver talks to a remote object store.  The store is not part of    *)
(* the program: every backend call is answered by the environment, and the *)
(* model draws each answer from the outcomes the call can have.  Every     *)
(* driver call is recorded in the log `calls`, in the order the driver     *)
(* issues it, with the answer it got.                                      *)
(*                                                                         *)
(* Spec        one driver call per behaviour: Init draws the request, the  *)
(*             action of the requested operation runs the whole handler.   *)
(* SpecArchive one CreateArchive run, one step per visited file.           *)
(* SpecList    one Driver.List call, one step per page requested.          *)
(* SpecListing ListArchiveFiles calls against the listing cache, with time *)
(*             passing between them.                                       *)
(* SpecZipList one getZipFileList call on the entries of a zip.            *)
(* SpecRace    Put and Token calls of several callers, interleaved at      *)
(*             their backend calls.                                        *)
(* SpecSMTP    the SMTP pool: Send calls, Close and the worker goroutine.  *)
(* SpecDB      InitializeDBClient calls on one database.                   *)
(* SpecPatch   one PatchMedata call.                                       *)
(* SpecListFair and SpecSMTPFair add the fairness of the List loop and of  *)
(* the worker goroutine.                                                   *)
(***************************************************************************)
EXTENDS Integers, Sequences, FiniteSets, TLC

(***************************************************************************)
(* Bounds of the model.                                                    *)
(***************************************************************************)
MaxSize == 4
MaxChunk == 3
MaxFiles == 4
MaxBatch == 3
MaxPaths == 2
MaxUploadID == 2
MaxDelta == 3
MaxRoots == 2
MaxChildren == 2
MaxFileSize == 1
MaxLimit == 1
MaxPage == 2
MaxEntity == 12
MaxArcSize == 2
MaxTicks == 2
MaxCalls == 2
MaxEntries == 1
MaxNameLen == 2
MaxCallers == 2
MaxMsgs == 2
MaxQueue == 2
MaxKeepalive == 1
MaxVersion == 2
MaxInits == 3
MaxPatches == 2
TickSeconds == 3599

(***************************************************************************)
(* Program constants.                                                      *)
(***************************************************************************)
DefaultChunkSize == 26214400
DefaultDeleteBatch == 1000
DefaultTTL == 604800
ListMaxKeys == 1000
ArchiveListCacheTTL == 3600
RecoverSeconds == 10

VARIABLES
    req,        \* the driver call under way: the operation and its arguments
    pc,         \* "idle" before the call, "done" after it returned
    calls,      \* the backend calls the driver issued, in order
    ret,        \* what the driver call returned
    session,    \* the mutable fields of the fs.UploadSession passed in
    closed,     \* whether the fs.UploadRequest reader has been closed
    arch,       \* the CreateArchive call: number of roots, MaxArchiveSize, DryRun
    apc,        \* where CreateArchive is: "start", "loop", "walk", "done"
    idx,        \* the root the loop over files is at (1-based)
    walkLeft,   \* the descendants Walk has still to hand to the callback
    failed,     \* CreateArchive's local `failed`
    compressed, \* CreateArchive's local `compressed`
    zip,        \* the zip.Writer: entries, cut entries, closed, bytes written
    es,         \* the entity sources: how many were opened, how many closed
    dryCalls,   \* how often the DryRun callback was called
    aret,       \* what CreateArchive returned
    seen,       \* history: files compressed / failed / never visited
    lreq,       \* the List call: base, recursive, and the bucket it lists
    lpc,        \* where List is: "start", "loop", "done"
    opt,        \* List's s3.ListObjectsInput: Prefix, Delimiter, Marker
    objects,    \* List's local `objects`: the Contents of every page so far
    commons,    \* List's local `commons`: the CommonPrefixes of every page
    sent,       \* the list requests sent to the backend, in order
    lret,       \* what List returned
    now,        \* the clock, in seconds
    ticks,      \* how often the clock has moved
    kv,         \* the listing cache: key -> value and expiry time
    lacall,     \* the latest ListArchiveFiles call: what it was given
    laret,      \* what that call returned, and the steps it took
    lacalls,    \* how many ListArchiveFiles calls were made
    zreq,       \* the getZipFileList call: the zip's entries, the encoding
    zret,       \* what getZipFileList returned
    rreq,       \* the concurrent driver calls: caller -> operation, path, overwrite
    rpc,        \* where each of them is: "check", "act", "done"
    rret,       \* what each of them returned
    held,       \* the bucket they share: path -> who wrote the object (0: none)
    uploads,    \* the multipart uploads created: pairs <<caller, path>>
    keepalive,  \* SMTPPool.config.Keepalive, in seconds
    chOpen,     \* SMTPPool.chOpen
    ch,         \* SMTPPool.ch: the messages buffered in the channel
    chClosed,   \* whether close(client.ch) has run
    wpc,        \* where the worker goroutine is
    open,       \* the worker's local `open`: the connection is dialed
    waited,     \* seconds since the worker entered its select
    sleepLeft,  \* seconds the recovering worker has still to sleep
    spc,        \* where the Send call of each message is
    sret,       \* what the Send call of each message returned
    afterClose, \* history: the Send call began after Close
    log,        \* history: what the worker did with the mail client
    marks,      \* the db_version_<V> settings in the database
    dbdone,     \* what of the schema and the default rows the database holds
    dbret,      \* the latest InitializeDBClient call and what it returned
    dbcalls,    \* how many InitializeDBClient calls were made
    preq,       \* the PatchMedata call: the patches it was given
    ppc,        \* "idle" before the call, "done" after it returned
    pret,       \* what PatchMedata returned
    fsCalls     \* the calls of the filesystem's PatchMetadata, with their patches

driverVars == <<req, pc, calls, ret, session, closed>>

archiveVars ==
    <<arch, apc, idx, walkLeft, failed, compressed, zip, es, dryCalls, aret, seen>>

listVars == <<lreq, lpc, opt, objects, commons, sent, lret>>

listingVars == <<now, ticks, kv, lacall, laret, lacalls>>

zipListVars == <<zreq, zret>>

raceVars == <<rreq, rpc, rret, held, uploads>>

smtpVars ==
    <<keepalive, chOpen, ch, chClosed, wpc, open, waited, sleepLeft,
      spc, sret, afterClose, log>>

dbVars == <<marks, dbdone, dbret, dbcalls>>

patchVars == <<preq, ppc, pret, fsCalls>>

\* What a driver call, CreateArchive, List, ListArchiveFiles and
\* getZipFileList leave alone.
nonDriverVars == <<archiveVars, listVars, listingVars, zipListVars,
      raceVars, smtpVars, dbVars, patchVars>>

nonArchiveVars == <<driverVars, listVars, listingVars, zipListVars,
      raceVars, smtpVars, dbVars, patchVars>>

nonListVars == <<driverVars, archiveVars, listingVars, zipListVars,
      raceVars, smtpVars, dbVars, patchVars>>

nonListingVars == <<driverVars, archiveVars, listVars, zipListVars,
      raceVars, smtpVars, dbVars, patchVars>>

nonZipListVars == <<driverVars, archiveVars, listVars, listingVars,
      raceVars, smtpVars, dbVars, patchVars>>

nonRaceVars ==
    <<driverVars, archiveVars, listVars, listingVars, zipListVars,
      smtpVars, dbVars, patchVars>>

nonSMTPVars ==
    <<driverVars, archiveVars, listVars, listingVars, zipListVars,
      raceVars, dbVars, patchVars>>

nonDBVars ==
    <<driverVars, archiveVars, listVars, listingVars, zipListVars,
      raceVars, smtpVars, patchVars>>

nonPatchVars ==
    <<driverVars, archiveVars, listVars, listingVars, zipListVars,
      raceVars, smtpVars, dbVars>>

vars == <<driverVars, archiveVars, listVars, listingVars, zipListVars,
      raceVars, smtpVars, dbVars, patchVars>>

Paths == 1..MaxPaths
UploadIDs == 1..MaxUploadID

(***************************************************************************)
(* One backend call: the API, the keys it names, its scalar argument (a    *)
(* part number, a TTL, an upload ID), the answer, the value the answer     *)
(* carries (a content length, a new upload ID) and, for DeleteObjects, the *)
(* per-key errors of the response.                                         *)
(***************************************************************************)
Call(api, keys, arg, resp, val, errs) ==
    [api |-> api, keys |-> keys, arg |-> arg, resp |-> resp, val |-> val, errs |-> errs]

NoRet == [err |-> "none", failed |-> <<>>, lastErr |-> 0, urls |-> <<>>, complete |-> 0]

FreshSession == [UploadID |-> 0, ChunkSize |-> 0, Callback |-> 0]

\* The answers of HeadObject: the object with its content length, a
\* not-found error, or any other (transport) error.
HeadOutcomes ==
    [st : {"found"}, size : 0..MaxSize] \cup [st : {"notfound", "error"}, size : {0}]

\* Driver.Meta: one HeadObject call; any error of the call is returned.
MetaCall(path, head) == Call("HeadObject", <<path>>, 0, head.st, head.size, <<>>)

MetaErr(head) == head.st # "found"

\* New: the driver's chunk size is the policy's, or 25 MB when that is 0.
ChunkSizeOf(policyChunk) ==
    IF policyChunk = 0 THEN DefaultChunkSize ELSE policyChunk

(***************************************************************************)
(* Driver.Put                                                              *)
(***************************************************************************)
UploadCall(path, up) == Call("Upload", <<path>>, 0, up, 0, <<>>)

\* A Put that transfers first and looks for a duplicate afterwards.
PutRun_UploadFirst(r, head, up) ==
    [err |-> IF ~r.overwrite /\ ~MetaErr(head) THEN "ErrFileExisted"
             ELSE IF up = "ok" THEN "nil" ELSE "upload_error",
     calls |-> <<UploadCall(r.path, up)>>
               \o (IF r.overwrite THEN <<>> ELSE <<MetaCall(r.path, head)>>),
     closed |-> TRUE]

PutRun(r, head, up) ==
    IF ~r.overwrite /\ ~MetaErr(head)
    THEN [err |-> "ErrFileExisted", calls |-> <<MetaCall(r.path, head)>>, closed |-> TRUE]
    ELSE [err |-> IF up = "ok" THEN "nil" ELSE "upload_error",
          calls |-> (IF r.overwrite THEN <<>> ELSE <<MetaCall(r.path, head)>>)
                    \o <<UploadCall(r.path, up)>>,
          closed |-> TRUE]

PutReqs == [op : {"Put"}, path : Paths, overwrite : BOOLEAN, size : 0..MaxSize]

Put ==
    /\ pc = "idle"
    /\ req.op = "Put"
    /\ \E head \in HeadOutcomes, up \in {"ok", "error"} :
          LET out == PutRun(req, head, up)
          IN  /\ calls' = out.calls
              /\ ret' = [NoRet EXCEPT !.err = out.err]
              /\ closed' = out.closed
    /\ pc' = "done"
    /\ UNCHANGED <<req, session>>
    /\ UNCHANGED nonDriverVars

(***************************************************************************)
(* chunk.ChunkGroup (package chunk): the planner of the upload's chunks.   *)
(* Num() is ceil(size / chunkSize); Next()/Process() visit the chunk       *)
(* indexes 0 .. Num()-1 in order and hand each to the callback once (the   *)
(* driver passes a zero-valued ConstantBackoff: no retry).                 *)
(***************************************************************************)
ChunkNum(size, chunkSize) == (size + chunkSize - 1) \div chunkSize

(***************************************************************************)
(* Driver.Token                                                            *)
(*   head      the answer of the duplicate check's HeadObject              *)
(*   create    the answer of CreateMultipartUpload                         *)
(*   signFail  which GeneratePresignedUrl call fails (0: none; k <= Num:   *)
(*             the one of chunk k; Num + 1: the one of the finalize URL)   *)
(***************************************************************************)
CreateOutcomes ==
    [st : {"ok"}, id : UploadIDs] \cup [st : {"error"}, id : {0}]

CreateCall(path, create) ==
    Call("CreateMultipartUpload", <<path>>, 0, create.st, create.id, <<>>)

PresignCall(api, path, arg, k, signFail) ==
    Call(api, <<path>>, arg, IF k = signFail THEN "error" ELSE "ok", 0, <<>>)

\* The callback URL is built from the site URL, the policy type, the session
\* ID and the callback secret: a non-empty value, 0 being the empty string.
CallbackOf(r) == 1

\* A Token that signs one URL per whole chunk only (size / chunkSize).
TokenRun_FloorChunks(r, sess, head, create, signFail) ==
    LET cs == ChunkSizeOf(r.policyChunk)
        n == r.size \div cs
        s2 == [sess EXCEPT !.ChunkSize = cs, !.Callback = CallbackOf(r), !.UploadID = create.id]
    IN  IF ~MetaErr(head) \/ create.st # "ok" \/ signFail # 0
        THEN [urls |-> <<>>, complete |-> 0, err |-> "error",
              calls |-> <<MetaCall(r.path, head)>>, session |-> sess]
        ELSE [err |-> "nil", session |-> s2,
              calls |-> <<MetaCall(r.path, head), CreateCall(r.path, create)>>
                        \o [k \in 1..n |-> PresignCall("PresignPUT", r.path, k, k, 0)]
                        \o <<PresignCall("PresignPOST", r.path, 0, n + 1, 0)>>,
              urls |-> [k \in 1..n |-> k], complete |-> 1]

\* A Token that prepares the session before it looks for a duplicate.
TokenRun_SessionFirst(r, sess, head, create, signFail) ==
    LET cs == ChunkSizeOf(r.policyChunk)
        s1 == [sess EXCEPT !.ChunkSize = cs, !.Callback = CallbackOf(r)]
    IN  [urls |-> <<>>, complete |-> 0,
         err |-> IF ~MetaErr(head) THEN "ErrFileExisted" ELSE "create_error",
         calls |-> <<MetaCall(r.path, head)>>, session |-> s1]

TokenRun(r, sess, head, create, signFail) ==
    LET cs == ChunkSizeOf(r.policyChunk)
        n == ChunkNum(r.size, cs)
        s1 == [sess EXCEPT !.ChunkSize = cs, !.Callback = CallbackOf(r)]
        s2 == [s1 EXCEPT !.UploadID = create.id]
        m == IF signFail \in 1..n THEN signFail ELSE n
        chunkCalls == [k \in 1..m |-> PresignCall("PresignPUT", r.path, k, k, signFail)]
        pre == <<MetaCall(r.path, head), CreateCall(r.path, create)>>
        none == [urls |-> <<>>, complete |-> 0]
    IN  IF ~MetaErr(head)
        THEN none @@ [err |-> "ErrFileExisted", calls |-> <<MetaCall(r.path, head)>>,
                      session |-> sess]
        ELSE IF create.st # "ok"
        THEN none @@ [err |-> "create_error", calls |-> pre, session |-> s1]
        ELSE IF signFail \in 1..n
        THEN none @@ [err |-> "sign_error", calls |-> pre \o chunkCalls, session |-> s2]
        ELSE IF signFail = n + 1
        THEN none @@ [err |-> "sign_error", session |-> s2,
                      calls |-> pre \o chunkCalls
                                \o <<PresignCall("PresignPOST", r.path, 0, n + 1, signFail)>>]
        ELSE [err |-> "nil", session |-> s2,
              calls |-> pre \o chunkCalls
                        \o <<PresignCall("PresignPOST", r.path, 0, n + 1, signFail)>>,
              urls |-> [k \in 1..n |-> k], complete |-> 1]

TokenReqs == [op : {"Token"}, path : Paths, size : 0..MaxSize, policyChunk : 0..MaxChunk]

Token ==
    /\ pc = "idle"
    /\ req.op = "Token"
    /\ \E head \in HeadOutcomes, create \in CreateOutcomes, signFail \in 0..(MaxSize + 1) :
          /\ signFail <= ChunkNum(req.size, ChunkSizeOf(req.policyChunk)) + 1
          /\ LET out == TokenRun(req, session, head, create, signFail)
             IN  /\ calls' = out.calls
                 /\ ret' = [NoRet EXCEPT !.err = out.err, !.urls = out.urls,
                                         !.complete = out.complete]
                 /\ session' = out.session
    /\ pc' = "done"
    /\ UNCHANGED <<req, closed>>
    /\ UNCHANGED nonDriverVars

(***************************************************************************)
(* Driver.CancelToken                                                      *)
(***************************************************************************)
\* A CancelToken that only logs a failed abort, as cancelUpload does.
CancelTokenRun_Swallow(r, sess, abort) ==
    [err |-> "nil",
     calls |-> <<Call("AbortMultipartUpload", <<r.path>>, sess.UploadID, abort, 0, <<>>)>>]

CancelTokenRun(r, sess, abort) ==
    [err |-> IF abort = "ok" THEN "nil" ELSE "abort_error",
     calls |-> <<Call("AbortMultipartUpload", <<r.path>>, sess.UploadID, abort, 0, <<>>)>>]

CancelTokenReqs == [op : {"CancelToken"}, path : Paths, uploadID : UploadIDs]

CancelToken ==
    /\ pc = "idle"
    /\ req.op = "CancelToken"
    /\ \E abort \in {"ok", "error"} :
          LET out == CancelTokenRun(req, session, abort)
          IN  /\ calls' = out.calls
              /\ ret' = [NoRet EXCEPT !.err = out.err]
    /\ pc' = "done"
    /\ UNCHANGED <<req, session, closed>>
    /\ UNCHANGED nonDriverVars

(***************************************************************************)
(* Driver.CompleteUpload                                                   *)
(***************************************************************************)
\* A CompleteUpload that only rejects an object shorter than expected.
CompleteUploadRun_AtLeast(r, head) ==
    IF r.sentinel = 0
    THEN [err |-> "nil", calls |-> <<>>]
    ELSE IF MetaErr(head)
    THEN [err |-> "meta_error", calls |-> <<MetaCall(r.path, head)>>]
    ELSE IF head.size < r.size
    THEN [err |-> "CodeMetaMismatch", calls |-> <<MetaCall(r.path, head)>>]
    ELSE [err |-> "nil", calls |-> <<MetaCall(r.path, head)>>]

CompleteUploadRun(r, head) ==
    IF r.sentinel = 0
    THEN [err |-> "nil", calls |-> <<>>]
    ELSE IF MetaErr(head)
    THEN [err |-> "meta_error", calls |-> <<MetaCall(r.path, head)>>]
    ELSE IF head.size # r.size
    THEN [err |-> "CodeMetaMismatch", calls |-> <<MetaCall(r.path, head)>>]
    ELSE [err |-> "nil", calls |-> <<MetaCall(r.path, head)>>]

CompleteUploadReqs ==
    [op : {"CompleteUpload"}, path : Paths, size : 0..MaxSize, sentinel : 0..1]

CompleteUpload ==
    /\ pc = "idle"
    /\ req.op = "CompleteUpload"
    /\ \E head \in HeadOutcomes :
          LET out == CompleteUploadRun(req, head)
          IN  /\ calls' = out.calls
              /\ ret' = [NoRet EXCEPT !.err = out.err]
    /\ pc' = "done"
    /\ UNCHANGED <<req, session, closed>>
    /\ UNCHANGED nonDriverVars

(***************************************************************************)
(* Driver.Source and Driver.Thumb: the TTL handed to the URL signer.       *)
(* time.Until(expire).Seconds() is a float; int64() cuts it toward zero.   *)
(* The request gives the distance to the expiry in half seconds.           *)
(***************************************************************************)
TruncSeconds(halves) ==
    IF halves >= 0 THEN halves \div 2 ELSE -((-halves) \div 2)

SourceTTL(r) == IF r.hasExpire THEN TruncSeconds(r.delta) ELSE DefaultTTL

ThumbTTL(r) == IF r.hasExpire THEN TruncSeconds(r.delta) ELSE DefaultTTL

SignedURLRun(r, ttl, sign) ==
    [err |-> IF sign = "ok" THEN "nil" ELSE "sign_error",
     calls |-> <<Call("PresignGET", <<r.path>>, ttl, sign, 0, <<>>)>>]

URLReqs(op) ==
    [op : {op}, path : Paths, hasExpire : {TRUE}, delta : (-MaxDelta)..MaxDelta]
        \cup [op : {op}, path : Paths, hasExpire : {FALSE}, delta : {0}]

Source ==
    /\ pc = "idle"
    /\ req.op = "Source"
    /\ \E sign \in {"ok", "error"} :
          LET out == SignedURLRun(req, SourceTTL(req), sign)
          IN  /\ calls' = out.calls
              /\ ret' = [NoRet EXCEPT !.err = out.err]
    /\ pc' = "done"
    /\ UNCHANGED <<req, session, closed>>
    /\ UNCHANGED nonDriverVars

Thumb ==
    /\ pc = "idle"
    /\ req.op = "Thumb"
    /\ \E sign \in {"ok", "error"} :
          LET out == SignedURLRun(req, ThumbTTL(req), sign)
          IN  /\ calls' = out.calls
              /\ ret' = [NoRet EXCEPT !.err = out.err]
    /\ pc' = "done"
    /\ UNCHANGED <<req, session, closed>>
    /\ UNCHANGED nonDriverVars

(***************************************************************************)
(* Driver.Delete                                                           *)
(*   keyOut     what the backend does with each key: "ok" (deleted),       *)
(*              "NoSuchKey" (reported as not found), "error" (any other    *)
(*              failure)                                                   *)
(*   batchFail  the groups whose DeleteObjects call fails as a whole       *)
(***************************************************************************)
EffBatch(batchSize) == IF batchSize = 0 THEN DefaultDeleteBatch ELSE batchSize

\* lo.Chunk: consecutive groups of `size` elements, the last one shorter.
RECURSIVE Chunk(_, _)
Chunk(s, size) ==
    IF Len(s) = 0 THEN <<>>
    ELSE IF Len(s) <= size THEN <<s>>
    ELSE <<SubSeq(s, 1, size)>> \o Chunk(SubSeq(s, size + 1, Len(s)), size)

\* A loop body that sends every group, also a group of one, as a batch.
DeleteGroup_AlwaysBatch(group, g, keyOut, batchFail) ==
    LET bad == SelectSeq(group, LAMBDA k : keyOut[k] # "ok")
    IN  [call |-> Call("DeleteObjects", group, 0, "ok", 0,
                       [i \in 1..Len(bad) |-> [key |-> bad[i], code |-> keyOut[bad[i]]]]),
         failed |-> bad,
         setErr |-> FALSE]

\* One iteration of the loop over the groups: the call it issues, the keys
\* it appends to failed, and whether it sets lastErr.
DeleteGroup(group, g, keyOut, batchFail) ==
    IF Len(group) = 1
    THEN LET o == keyOut[group[1]]
         IN  [call |-> Call("DeleteObject", group, 0, o, 0, <<>>),
              failed |-> IF o = "error" THEN group ELSE <<>>,
              setErr |-> o = "error"]
    ELSE IF g \in batchFail
    THEN [call |-> Call("DeleteObjects", group, 0, "error", 0, <<>>),
          failed |-> group,
          setErr |-> TRUE]
    ELSE LET bad == SelectSeq(group, LAMBDA k : keyOut[k] # "ok")
         IN  [call |-> Call("DeleteObjects", group, 0, "ok", 0,
                            [i \in 1..Len(bad) |-> [key |-> bad[i], code |-> keyOut[bad[i]]]]),
              failed |-> bad,
              setErr |-> FALSE]

\* A loop that stops at the first group whose call set lastErr.
RECURSIVE DeleteLoop_AbortOnError(_, _, _, _, _)
DeleteLoop_AbortOnError(groups, g, keyOut, batchFail, acc) ==
    IF g > Len(groups) \/ acc.lastErr # 0 THEN acc
    ELSE LET step == DeleteGroup(groups[g], g, keyOut, batchFail)
         IN  DeleteLoop_AbortOnError(groups, g + 1, keyOut, batchFail,
                        [calls |-> Append(acc.calls, step.call),
                         failed |-> acc.failed \o step.failed,
                         lastErr |-> IF step.setErr THEN g ELSE acc.lastErr])

RECURSIVE DeleteLoop(_, _, _, _, _)
DeleteLoop(groups, g, keyOut, batchFail, acc) ==
    IF g > Len(groups) THEN acc
    ELSE LET step == DeleteGroup(groups[g], g, keyOut, batchFail)
         IN  DeleteLoop(groups, g + 1, keyOut, batchFail,
                        [calls |-> Append(acc.calls, step.call),
                         failed |-> acc.failed \o step.failed,
                         lastErr |-> IF step.setErr THEN g ELSE acc.lastErr])

\* lastErr is 0 for nil, else the number of the group whose call set it.
DeleteRun(files, batchSize, keyOut, batchFail) ==
    DeleteLoop(Chunk(files, EffBatch(batchSize)), 1, keyOut, batchFail,
               [calls |-> <<>>, failed |-> <<>>, lastErr |-> 0])

\* The keys of a call are distinct names; they are named by their position.
DeleteReqs ==
    {[op |-> "Delete", files |-> [i \in 1..n |-> i], batch |-> b] :
        n \in 0..MaxFiles, b \in 0..MaxBatch}

Delete ==
    /\ pc = "idle"
    /\ req.op = "Delete"
    /\ \E keyOut \in [1..Len(req.files) -> {"ok", "NoSuchKey", "error"}],
          batchFail \in SUBSET (1..Len(Chunk(req.files, EffBatch(req.batch)))) :
          LET out == DeleteRun(req.files, req.batch, keyOut, batchFail)
          IN  /\ calls' = out.calls
              /\ ret' = [NoRet EXCEPT !.err = IF out.lastErr = 0 THEN "nil" ELSE "delete_error",
                                      !.failed = out.failed,
                                      !.lastErr = out.lastErr]
    /\ pc' = "done"
    /\ UNCHANGED <<req, session, closed>>
    /\ UNCHANGED nonDriverVars

(***************************************************************************)
(* The state of the archive service before any CreateArchive call.         *)
(***************************************************************************)
NewZip == [entries |-> 0, cut |-> 0, closed |-> FALSE, written |-> FALSE]

NoSources == [opened |-> 0, released |-> 0]

NothingSeen == [ok |-> 0, failing |-> 0, unvisited |-> 0]

NoArchiveRet == [failed |-> 0, err |-> "none"]

ArchiveLocals ==
    /\ apc = "start"
    /\ idx = 1
    /\ walkLeft = 0
    /\ failed = 0
    /\ compressed = 0
    /\ zip = NewZip
    /\ es = NoSources
    /\ dryCalls = 0
    /\ aret = NoArchiveRet
    /\ seen = NothingSeen

ArchiveIdle ==
    /\ arch = [n |-> 0, MaxArchiveSize |-> 0, DryRun |-> FALSE]
    /\ ArchiveLocals

\* No driver call is under way.
DriverIdle ==
    /\ req = [op |-> "none"]
    /\ pc = "idle"
    /\ calls = <<>>
    /\ ret = NoRet
    /\ session = FreshSession
    /\ closed = FALSE

(***************************************************************************)
(* The state of the driver before any List call.                           *)
(***************************************************************************)
NoListOpt == [Prefix |-> <<>>, MaxKeys |-> 0, Delimiter |-> "", Marker |-> <<>>]

NoListRet == [err |-> "none", res |-> <<>>]

ListLocals ==
    /\ lpc = "start"
    /\ opt = NoListOpt
    /\ objects = <<>>
    /\ commons = <<>>
    /\ sent = <<>>
    /\ lret = NoListRet

ListIdle ==
    /\ lreq = [base |-> <<>>, recursive |-> FALSE, bucket |-> {}, page |-> 1]
    /\ ListLocals

(***************************************************************************)
(* The archive service before any ListArchiveFiles call: an empty cache.   *)
(***************************************************************************)
NoListing == [entity |-> 0, enc |-> <<>>, ext |-> "none"]

NoListingCall ==
    [ext |-> "none", size |-> 0, DecompressSize |-> 0, entity |-> 0, zipEncoding |-> <<>>]

NoListingRet == [err |-> "none", list |-> NoListing, trace |-> <<>>]

ListingIdle ==
    /\ now = 0
    /\ ticks = 0
    /\ kv = <<>>
    /\ lacall = NoListingCall
    /\ laret = NoListingRet
    /\ lacalls = 0

\* No getZipFileList call is under way.
NoZipListRet == [err |-> "none", list |-> <<>>]

ZipListIdle ==
    /\ zreq = [files |-> <<>>, textEncoding |-> "nil", readerOK |-> TRUE]
    /\ zret = NoZipListRet

\* No concurrent driver calls are under way.
RaceIdle ==
    /\ rreq = <<>>
    /\ rpc = <<>>
    /\ rret = <<>>
    /\ held = <<>>
    /\ uploads = {}

\* No SMTP pool has been made.
SMTPIdle ==
    /\ keepalive = 0
    /\ chOpen = FALSE
    /\ ch = <<>>
    /\ chClosed = FALSE
    /\ wpc = "none"
    /\ open = FALSE
    /\ waited = 0
    /\ sleepLeft = 0
    /\ spc = <<>>
    /\ sret = <<>>
    /\ afterClose = <<>>
    /\ log = <<>>

\* No InitializeDBClient call was made, on an empty database.
DBIdle ==
    /\ marks = {}
    /\ dbdone = {}
    /\ dbret = [V |-> 0, hadMark |-> FALSE, migrated |-> FALSE, steps |-> <<>>,
                err |-> "none"]
    /\ dbcalls = 0

\* No PatchMedata call is under way.
PatchIdle ==
    /\ preq = <<>>
    /\ ppc = "idle"
    /\ pret = "none"
    /\ fsCalls = <<>>

\* Nothing but the operation a specification is about is under way.
OthersIdle == RaceIdle /\ SMTPIdle /\ DBIdle /\ PatchIdle

(***************************************************************************)
(* One driver call per behaviour.                                          *)
(***************************************************************************)
SessionOf(r) ==
    IF r.op = "CancelToken"
    THEN [UploadID |-> r.uploadID, ChunkSize |-> DefaultChunkSize, Callback |-> 1]
    ELSE FreshSession

Init ==
    /\ \/ req \in PutReqs
       \/ req \in TokenReqs
       \/ req \in CancelTokenReqs
       \/ req \in CompleteUploadReqs
       \/ req \in URLReqs("Source")
       \/ req \in URLReqs("Thumb")
       \/ req \in DeleteReqs
    /\ pc = "idle"
    /\ calls = <<>>
    /\ ret = NoRet
    /\ session = SessionOf(req)
    /\ closed = FALSE
    /\ ArchiveIdle
    /\ ListIdle
    /\ ListingIdle
    /\ ZipListIdle
    /\ OthersIdle

Next ==
    \/ Put
    \/ Token
    \/ CancelToken
    \/ CompleteUpload
    \/ Source
    \/ Thumb
    \/ Delete

Spec == Init /\ [][Next]_vars

(***************************************************************************)
(* manager.CreateArchive.                                                  *)
(*                                                                         *)
(* The roots and their descendants come from the virtual filesystem, and   *)
(* each file's bytes from its entity source: the model draws the kind of   *)
(* every root, the number of descendants of a directory root, and the kind,*)
(* size and fate of every visited file when the loop reaches it.           *)
(*   "ok"            the file is compressed into the archive               *)
(*   "source_error"  GetEntitySource fails                                 *)
(*   "header_error"  zipWriter.CreateHeader fails                          *)
(*   "copy_error"    io.Copy fails: reading the source or writing fails    *)
(***************************************************************************)
FileOutcomes(dry) ==
    IF dry THEN {"ok", "source_error"}
    ELSE {"ok", "source_error", "header_error", "copy_error"}

\* compressFileToArchive: the error it returns and what it does to the zip
\* writer, to the entity sources and to the dry-run callback.
CompressFile(o, dry, z, e, d) ==
    IF o = "source_error"
    THEN [err |-> TRUE, zip |-> z, es |-> e, dryCalls |-> d]
    ELSE LET e1 == [e EXCEPT !.opened = @ + 1]
         IN  IF dry
             THEN [err |-> FALSE, zip |-> z, es |-> e1, dryCalls |-> d + 1]
             ELSE IF o = "header_error"
             THEN [err |-> TRUE, zip |-> z, es |-> e1, dryCalls |-> d]
             ELSE IF o = "copy_error"
             THEN [err |-> TRUE, es |-> e1, dryCalls |-> d,
                   zip |-> [z EXCEPT !.cut = @ + 1, !.written = TRUE]]
             ELSE [err |-> FALSE, es |-> e1, dryCalls |-> d,
                   zip |-> [z EXCEPT !.entries = @ + 1, !.written = TRUE]]

\* zipWriter.Close, deferred in CreateArchive: writes the central directory.
CloseZip(z) == [z EXCEPT !.closed = TRUE, !.written = TRUE]

\* A loop body that gives up at the first file that fails.
FileStep_AbortOnFailure(size, o) ==
    LET c == CompressFile(o, arch.DryRun, zip, es, dryCalls)
        total == compressed + size
    IN  [err |-> c.err, zip |-> c.zip, es |-> c.es, dryCalls |-> c.dryCalls,
         failed |-> IF c.err THEN failed + 1 ELSE failed,
         compressed |-> total,
         abort |-> IF c.err THEN "compress_error"
                   ELSE IF arch.MaxArchiveSize > 0 /\ total > arch.MaxArchiveSize
                   THEN "ErrArchiveSrcSizeTooBig" ELSE "none"]

\* The body both loops share, for a top-level file and for a descendant:
\* compress the file, count a failure, add the file's size, check the
\* ceiling.  abort is the error the body ends the iteration with.
FileStep(size, o) ==
    LET c == CompressFile(o, arch.DryRun, zip, es, dryCalls)
        total == compressed + size
    IN  [err |-> c.err, zip |-> c.zip, es |-> c.es, dryCalls |-> c.dryCalls,
         failed |-> IF c.err THEN failed + 1 ELSE failed,
         compressed |-> total,
         abort |-> IF arch.MaxArchiveSize > 0 /\ total > arch.MaxArchiveSize
                   THEN "ErrArchiveSrcSizeTooBig" ELSE "none"]

Count(h, err) ==
    IF err THEN [h EXCEPT !.failing = @ + 1] ELSE [h EXCEPT !.ok = @ + 1]

\* The options are applied and every root is resolved with m.Get; a root
\* that cannot be resolved ends the call before the zip writer exists.
Begin ==
    /\ apc = "start"
    /\ \E getOK \in BOOLEAN :
          IF getOK \/ arch.n = 0
          THEN apc' = "loop" /\ aret' = aret
          ELSE apc' = "done" /\ aret' = [failed |-> 0, err |-> "get_error"]
    /\ UNCHANGED <<arch, idx, walkLeft, failed, compressed, zip, es, dryCalls, seen>>
    /\ UNCHANGED nonArchiveVars

\* The loop reaches a root that is a file.
TopLevelFile ==
    /\ apc = "loop"
    /\ idx <= arch.n
    /\ \E size \in 0..MaxFileSize, o \in FileOutcomes(arch.DryRun) :
          LET st == FileStep(size, o)
          IN  /\ failed' = st.failed
              /\ compressed' = st.compressed
              /\ es' = st.es
              /\ dryCalls' = st.dryCalls
              /\ seen' = Count(seen, st.err)
              /\ IF st.abort # "none"
                 THEN /\ aret' = [failed |-> 0, err |-> st.abort]
                      /\ zip' = CloseZip(st.zip)
                      /\ apc' = "done"
                      /\ idx' = idx
                 ELSE /\ aret' = aret
                      /\ zip' = st.zip
                      /\ apc' = "loop"
                      /\ idx' = idx + 1
    /\ UNCHANGED <<arch, walkLeft>>
    /\ UNCHANGED nonArchiveVars

\* The loop reaches a root that is a directory: Walk starts on it.
WalkBegin ==
    /\ apc = "loop"
    /\ idx <= arch.n
    /\ \E k \in 0..MaxChildren : walkLeft' = k
    /\ apc' = "walk"
    /\ UNCHANGED <<arch, idx, failed, compressed, zip, es, dryCalls, aret, seen>>
    /\ UNCHANGED nonArchiveVars

\* dbfs Walk hands every descendant to the callback, depth first, and
\* returns the callback's error as soon as one is not nil.
WalkStops(cbErr) == cbErr # "none"

\* Walk hands one descendant to the callback.  When the callback returns
\* an error Walk returns it, CreateArchive counts the folder as failed and
\* goes on with the next root.
WalkVisit ==
    /\ apc = "walk"
    /\ walkLeft > 0
    /\ \/ \E kind \in {"folder", "symlink"} :
             /\ walkLeft' = walkLeft - 1
             /\ UNCHANGED <<apc, idx, failed, compressed, zip, es, dryCalls, seen>>
       \/ \E size \in 0..MaxFileSize, o \in FileOutcomes(arch.DryRun) :
             LET st == FileStep(size, o)
             IN  /\ compressed' = st.compressed
                 /\ zip' = st.zip
                 /\ es' = st.es
                 /\ dryCalls' = st.dryCalls
                 /\ IF WalkStops(st.abort)
                    THEN /\ failed' = st.failed + 1
                         /\ seen' = [Count(seen, st.err) EXCEPT
                                        !.unvisited = @ + (walkLeft - 1)]
                         /\ walkLeft' = 0
                         /\ idx' = idx + 1
                         /\ apc' = "loop"
                    ELSE /\ failed' = st.failed
                         /\ seen' = Count(seen, st.err)
                         /\ walkLeft' = walkLeft - 1
                         /\ UNCHANGED <<apc, idx>>
    /\ UNCHANGED <<arch, aret>>
    /\ UNCHANGED nonArchiveVars

\* Walk has visited every descendant and returns nil.
WalkEnd ==
    /\ apc = "walk"
    /\ walkLeft = 0
    /\ apc' = "loop"
    /\ idx' = idx + 1
    /\ UNCHANGED <<arch, walkLeft, failed, compressed, zip, es, dryCalls, aret, seen>>
    /\ UNCHANGED nonArchiveVars

\* Every root is done: CreateArchive returns failed and nil, and the
\* deferred zipWriter.Close runs.
Finish ==
    /\ apc = "loop"
    /\ idx > arch.n
    /\ aret' = [failed |-> failed, err |-> "nil"]
    /\ zip' = CloseZip(zip)
    /\ apc' = "done"
    /\ UNCHANGED <<arch, idx, walkLeft, failed, compressed, es, dryCalls, seen>>
    /\ UNCHANGED nonArchiveVars

ArchiveReqs ==
    [n : 0..MaxRoots, MaxArchiveSize : 0..MaxLimit, DryRun : BOOLEAN]

InitArchive ==
    /\ arch \in ArchiveReqs
    /\ ArchiveLocals
    /\ DriverIdle
    /\ ListIdle
    /\ ListingIdle
    /\ ZipListIdle
    /\ OthersIdle

NextArchive ==
    \/ Begin
    \/ TopLevelFile
    \/ WalkBegin
    \/ WalkVisit
    \/ WalkEnd
    \/ Finish

SpecArchive == InitArchive /\ [][NextArchive]_vars

(***************************************************************************)
(* Driver.List.                                                            *)
(*                                                                         *)
(* Keys and prefixes are strings, written as sequences of the characters   *)
(* "/", "a" and "b".  The bucket is the set of object keys the backend     *)
(* holds; lreq.page is the most items the backend puts in one page.        *)
(***************************************************************************)
BucketKeys ==
    { <<"a">>, <<"b">>, <<"a", "/", "a">>, <<"a", "/", "b">>, <<"/", "a">> }

ListBases == { <<>>, <<"a">>, <<"/", "a">> }

\* base = strings.TrimPrefix(base, "/"); if base != "" { base += "/" }
ListPrefix(base) ==
    LET b == IF Len(base) > 0 /\ base[1] = "/" THEN Tail(base) ELSE base
    IN  IF b = <<>> THEN b ELSE b \o <<"/">>

HasPrefix(k, p) == Len(p) <= Len(k) /\ SubSeq(k, 1, Len(p)) = p

\* The byte order of the three characters: "/" < "a" < "b".
CharRank(c) == IF c = "/" THEN 1 ELSE IF c = "a" THEN 2 ELSE 3

RECURSIVE LexLess(_, _)
LexLess(a, b) ==
    IF a = <<>> THEN b # <<>>
    ELSE IF b = <<>> THEN FALSE
    ELSE IF a[1] = b[1] THEN LexLess(Tail(a), Tail(b))
    ELSE CharRank(a[1]) < CharRank(b[1])

RECURSIVE SortKeys(_)
SortKeys(S) ==
    IF S = {} THEN <<>>
    ELSE LET m == CHOOSE x \in S : \A y \in S \ {x} : LexLess(x, y)
         IN  <<m>> \o SortKeys(S \ {m})

MinOf(S) == CHOOSE i \in S : \A j \in S : i <= j

\* What the backend lists a key as: the key itself, or, when a delimiter is
\* given and occurs in the key after the prefix, the common prefix that ends
\* at its first occurrence.
ListItem(k, prefix, delimiter) ==
    LET cut == {i \in (Len(prefix) + 1)..Len(k) : k[i] = delimiter}
    IN  IF cut # {}
        THEN [dir |-> TRUE, key |-> SubSeq(k, 1, MinOf(cut))]
        ELSE [dir |-> FALSE, key |-> k]

\* The items a request is still to be answered with, in key order: those
\* under the prefix and after the marker.
ListItems(bucket, o) ==
    LET under == {k \in bucket : HasPrefix(k, o.Prefix)}
        items == {ListItem(k, o.Prefix, o.Delimiter) : k \in under}
        after == {it \in items : LexLess(o.Marker, it.key)}
        keys == SortKeys({it.key : it \in after})
    IN  [i \in 1..Len(keys) |-> CHOOSE it \in after : it.key = keys[i]]

\* The page that holds the first n of the items.
Page(its, n) ==
    LET got == SubSeq(its, 1, n)
        keyOf(q) == [i \in 1..Len(q) |-> q[i].key]
    IN  [Contents |-> keyOf(SelectSeq(got, LAMBDA it : ~it.dir)),
         CommonPrefixes |-> keyOf(SelectSeq(got, LAMBDA it : it.dir)),
         IsTruncated |-> n < Len(its),
         NextMarker |-> IF n = 0 THEN <<>> ELSE got[n].key]

\* svc.ListObjectsWithContext: one page of at most MaxKeys items.
ListObjects(bucket, o, page) ==
    CHOOSE r \in { Page(its, MinOf({Len(its), page, o.MaxKeys})) :
                      its \in {ListItems(bucket, o)} } : TRUE

\* filepath.Rel(prefix, key) for a key under the prefix.  Rel cleans both
\* paths ("" becomes ".", a trailing "/" is dropped) and fails when one of
\* them is rooted and the other is not.
Slashed(path) == Len(path) > 0 /\ path[1] = "/"

RelFails(prefix, key) == Slashed(prefix) # Slashed(key)

RelPath(prefix, key) ==
    LET rest == SubSeq(key, Len(prefix) + 1, Len(key))
        trim == IF Len(rest) > 0 /\ rest[Len(rest)] = "/"
                THEN SubSeq(rest, 1, Len(rest) - 1) ELSE rest
    IN  IF trim = <<>> THEN <<".">> ELSE trim

\* A result that turns every common prefix into a directory entry.
ListResult_NoSkip(prefix, cs, os) ==
    [i \in 1..Len(cs) |->
        [RelativePath |-> RelPath(prefix, cs[i]), IsDir |-> TRUE, Source |-> <<>>]]
    \o
    [i \in 1..Len(os) |->
        [RelativePath |-> RelPath(prefix, os[i]), IsDir |-> FALSE, Source |-> os[i]]]

\* The fs.PhysicalObject list List builds: the common prefixes first, then
\* the objects, skipping what Rel fails on.  Of each entry the model keeps
\* RelativePath, IsDir and Source.
ListResult(prefix, cs, os) ==
    LET okc == SelectSeq(cs, LAMBDA c : ~RelFails(prefix, c))
        oko == SelectSeq(os, LAMBDA k : ~RelFails(prefix, k))
    IN  [i \in 1..Len(okc) |->
            [RelativePath |-> RelPath(prefix, okc[i]), IsDir |-> TRUE, Source |-> <<>>]]
        \o
        [i \in 1..Len(oko) |->
            [RelativePath |-> RelPath(prefix, oko[i]), IsDir |-> FALSE, Source |-> oko[i]]]

\* The list options are set up before the first request.
ListStart ==
    /\ lpc = "start"
    /\ opt' = [Prefix |-> ListPrefix(lreq.base),
               MaxKeys |-> ListMaxKeys,
               Delimiter |-> IF lreq.recursive THEN "" ELSE "/",
               Marker |-> <<>>]
    /\ lpc' = "loop"
    /\ UNCHANGED <<lreq, objects, commons, sent, lret>>
    /\ UNCHANGED nonListVars

\* A loop that takes every page for the last one.
ListPage_FirstPageOnly ==
    /\ lpc = "loop"
    /\ sent' = Append(sent, opt)
    /\ \E fail \in BOOLEAN :
          IF fail
          THEN /\ lret' = [err |-> "list_error", res |-> <<>>]
               /\ UNCHANGED <<objects, commons>>
          ELSE \E res \in {ListObjects(lreq.bucket, opt, lreq.page)} :
                   /\ objects' = objects \o res.Contents
                   /\ commons' = commons \o res.CommonPrefixes
                   /\ lret' = [err |-> "nil",
                               res |-> ListResult(opt.Prefix, commons', objects')]
    /\ lpc' = "done"
    /\ UNCHANGED <<lreq, opt>>
    /\ UNCHANGED nonListVars

\* One turn of the loop: a request is sent with the current options; an
\* error ends the call, a truncated page moves the marker, and the last page
\* ends the loop and List builds its result.
ListPage ==
    /\ lpc = "loop"
    /\ sent' = Append(sent, opt)
    /\ \E fail \in BOOLEAN :
          IF fail
          THEN /\ lret' = [err |-> "list_error", res |-> <<>>]
               /\ lpc' = "done"
               /\ UNCHANGED <<opt, objects, commons>>
          ELSE \E res \in {ListObjects(lreq.bucket, opt, lreq.page)} :
                   /\ objects' = objects \o res.Contents
                   /\ commons' = commons \o res.CommonPrefixes
                   /\ IF res.IsTruncated
                      THEN /\ opt' = [opt EXCEPT !.Marker = res.NextMarker]
                           /\ UNCHANGED <<lpc, lret>>
                      ELSE /\ lret' = [err |-> "nil",
                                       res |-> ListResult(opt.Prefix, commons', objects')]
                           /\ lpc' = "done"
                           /\ opt' = opt
    /\ UNCHANGED lreq
    /\ UNCHANGED nonListVars

ListReqs ==
    [base : ListBases, recursive : BOOLEAN, bucket : SUBSET BucketKeys, page : 1..MaxPage]

InitList ==
    /\ lreq \in ListReqs
    /\ ListLocals
    /\ DriverIdle
    /\ ArchiveIdle
    /\ ListingIdle
    /\ ZipListIdle
    /\ OthersIdle

NextList ==
    \/ ListStart
    \/ ListPage

SpecList == InitList /\ [][NextList]_vars

\* List is one loop in one goroutine: it goes on as long as it can.
SpecListFair == SpecList /\ WF_vars(NextList)

(***************************************************************************)
(* manager.ListArchiveFiles and the listing cache.                         *)
(*                                                                         *)
(* Encoding names and cache keys are strings, written as sequences of      *)
(* characters.  A listing is what a decoder makes of an entity's bytes: it *)
(* is named by the entity, the encoding handed to the decoder and the      *)
(* format that chose the decoder.                                          *)
(***************************************************************************)
\* The names a caller may pass as zipEncoding: none, two spellings of a
\* name of the table, and a name the table does not have.
EncodingNames ==
    { <<>>, <<"g", "b", "k">>, <<"G", "B", "K">>, <<"x">> }

\* The keys of the ZipEncodings table (of which the model has one).
ZipEncodings == { <<"g", "b", "k">> }

LowerChar(c) ==
    IF c = "G" THEN "g" ELSE IF c = "B" THEN "b" ELSE IF c = "K" THEN "k" ELSE c

\* strings.ToLower
ToLower(str) == [i \in 1..Len(str) |-> LowerChar(str[i])]

DigitChar(d) == <<"0", "1", "2", "3", "4", "5", "6", "7", "8", "9">>[d + 1]

\* The decimal digits of n, as %d prints them.
RECURSIVE Itoa(_)
Itoa(n) ==
    IF n < 10 THEN <<DigitChar(n)>> ELSE Itoa(n \div 10) \o <<DigitChar(n % 10)>>

\* A cache key made of the entity ID alone.
getArchiveListCacheKey_EntityOnly(entity, encoding) ==
    <<"archive_list_">> \o Itoa(entity)

\* fmt.Sprintf("archive_list_%d_%s", entity, encoding)
getArchiveListCacheKey(entity, encoding) ==
    <<"archive_list_">> \o Itoa(entity) \o <<"_">> \o encoding

(***************************************************************************)
(* The cache (package cache): a key-value store with a time to live.  An   *)
(* entry is found until its time to live has passed; whether it is still   *)
(* found at the very second it expires is the store's choice (atEdge).     *)
(***************************************************************************)
KvGet(store, key, t, atEdge) ==
    IF key \notin DOMAIN store THEN [st |-> "miss", val |-> NoListing]
    ELSE IF t < store[key].expire \/ (t = store[key].expire /\ atEdge)
    THEN [st |-> "hit", val |-> store[key].val]
    ELSE [st |-> "stale", val |-> NoListing]

KvSet(store, key, val, ttl, t) ==
    [k \in DOMAIN store \cup {key} |->
        IF k = key THEN [val |-> val, expire |-> t + ttl] ELSE store[k]]

(***************************************************************************)
(* ListArchiveFiles(uri, entity, zipEncoding) at time t.                   *)
(*   c        the file the uri names (extension, size), the caller's group *)
(*            limit DecompressSize, the entity asked for and zipEncoding   *)
(*   fault    the first collaborator that fails:                           *)
(*            "get_error"     m.fs.Get fails                               *)
(*            "not_file"      the uri names a folder                       *)
(*            "no_entity"     FindDesiredEntity finds nothing              *)
(*            "source_error"  GetEntitySource fails                        *)
(*            "decode_error"  the format reader fails                      *)
(* fs.ErrNotSupportedAction is returned for three reasons, told apart by   *)
(* the error it wraps: not a file, zip encoding, archive format.           *)
(* trace lists the steps taken, the cache lookup with its outcome.         *)
(***************************************************************************)
ListingFaults ==
    {"none", "get_error", "not_file", "no_entity", "source_error", "decode_error"}

ListingOut(err, list, trace, store) ==
    [err |-> err, list |-> list, trace |-> trace, kv |-> store]

\* Lines 88-116: the checks made before the cache is looked at.  The error
\* of the first check that fails, or "ok".
ListingChecks(c, fault) ==
    IF fault = "get_error" THEN "get_error"
    ELSE IF fault = "not_file" THEN "ErrNotSupportedAction: not a file"
    ELSE IF c.DecompressSize > 0 /\ c.size > c.DecompressSize THEN "ErrFileSizeTooBig"
    ELSE IF fault = "no_entity" THEN "ErrEntityNotExist"
    ELSE IF c.zipEncoding # <<>> /\ ToLower(c.zipEncoding) \notin ZipEncodings
    THEN "ErrNotSupportedAction: zip encoding"
    ELSE "ok"

\* Lines 118-123: the cache lookup, and the return of what it found.
ListingLookup(c, store, t, atEdge) ==
    KvGet(store, getArchiveListCacheKey(c.entity, c.zipEncoding), t, atEdge)

ListingHit(got, store) ==
    ListingOut("nil", got.val, <<"fs.Get", "kv.Get:hit">>, store)

\* Lines 125-150: the entity source is opened, the extension picks the
\* format reader, the listing is decoded and stored.
ListingDecode(c, fault, store, t, got) ==
    LET key == getArchiveListCacheKey(c.entity, c.zipEncoding)
        enc == IF c.zipEncoding = <<>> THEN <<>> ELSE ToLower(c.zipEncoding)
        list == [entity |-> c.entity, enc |-> enc, ext |-> c.ext]
        opened == <<"fs.Get", "kv.Get:" \o got.st, "GetEntitySource">>
    IN  IF fault = "source_error"
        THEN ListingOut("source_error", NoListing, opened, store)
        ELSE IF c.ext \notin {"zip", "7z"}
        THEN ListingOut("ErrNotSupportedAction: archive format", NoListing, opened \o <<"es.Close">>, store)
        ELSE IF fault = "decode_error"
        THEN ListingOut("decode_error", NoListing,
                        opened \o <<"decode", "es.Close">>, store)
        ELSE ListingOut("nil", list, opened \o <<"decode", "kv.Set", "es.Close">>,
                        KvSet(store, key, list, ArchiveListCacheTTL, t))

\* A ListArchiveFiles that never asks the cache.
ListArchiveFilesRun_AlwaysDecode(c, fault, store, t, atEdge) ==
    IF ListingChecks(c, fault) # "ok"
    THEN ListingOut(ListingChecks(c, fault), NoListing, <<"fs.Get">>, store)
    ELSE ListingDecode(c, fault, store, t, [st |-> "miss", val |-> NoListing])

\* A ListArchiveFiles that asks the cache before it checks the file.
ListArchiveFilesRun_CacheFirst(c, fault, store, t, atEdge) ==
    LET got == ListingLookup(c, store, t, atEdge)
    IN  IF got.st = "hit" THEN ListingHit(got, store)
        ELSE IF ListingChecks(c, fault) # "ok"
        THEN ListingOut(ListingChecks(c, fault), NoListing, <<"fs.Get">>, store)
        ELSE ListingDecode(c, fault, store, t, got)

\* A ListArchiveFiles that looks at the extension before the cache.
ListArchiveFilesRun_ExtensionFirst(c, fault, store, t, atEdge) ==
    LET got == ListingLookup(c, store, t, atEdge)
    IN  IF ListingChecks(c, fault) # "ok"
        THEN ListingOut(ListingChecks(c, fault), NoListing, <<"fs.Get">>, store)
        ELSE IF c.ext \notin {"zip", "7z"}
        THEN ListingOut("ErrNotSupportedAction: archive format", NoListing, <<"fs.Get">>, store)
        ELSE IF got.st = "hit" THEN ListingHit(got, store)
        ELSE ListingDecode(c, fault, store, t, got)

ListArchiveFilesRun(c, fault, store, t, atEdge) ==
    LET got == ListingLookup(c, store, t, atEdge)
    IN  IF ListingChecks(c, fault) # "ok"
        THEN ListingOut(ListingChecks(c, fault), NoListing, <<"fs.Get">>, store)
        ELSE IF got.st = "hit" THEN ListingHit(got, store)
        ELSE ListingDecode(c, fault, store, t, got)

\* A call's file is small or large, its caller's group has no limit or one,
\* and the entity asked for is one of two, with a short and a long ID.
ListingCalls ==
    [ext : {"zip", "7z", "txt"}, size : {1, MaxArcSize}, DecompressSize : {0, MaxLimit},
     entity : {1, MaxEntity}, zipEncoding : EncodingNames]

\* The store has a choice only for an entry that expires this very second.
EdgeChoices(store, key, t) ==
    IF key \in DOMAIN store /\ store[key].expire = t THEN BOOLEAN ELSE {FALSE}

\* One ListArchiveFiles call, from its first line to its return.
ListArchiveFiles ==
    /\ laret.err = "none"
    /\ lacalls < MaxCalls
    /\ \E c \in ListingCalls, fault \in ListingFaults :
       \E atEdge \in EdgeChoices(kv, getArchiveListCacheKey(c.entity, c.zipEncoding), now) :
          LET out == ListArchiveFilesRun(c, fault, kv, now, atEdge)
          IN  /\ lacall' = c
              /\ laret' = [err |-> out.err, list |-> out.list, trace |-> out.trace]
              /\ kv' = out.kv
    /\ lacalls' = lacalls + 1
    /\ UNCHANGED <<now, ticks>>
    /\ UNCHANGED nonListingVars

\* The caller has the result; the service waits for the next request.
ListingReturned ==
    /\ laret.err # "none"
    /\ lacall' = NoListingCall
    /\ laret' = NoListingRet
    /\ UNCHANGED <<now, ticks, kv, lacalls>>
    /\ UNCHANGED nonListingVars

\* Time passes between two calls.
Tick ==
    /\ laret.err = "none"
    /\ ticks < MaxTicks
    /\ now' = now + TickSeconds
    /\ ticks' = ticks + 1
    /\ UNCHANGED <<kv, lacall, laret, lacalls>>
    /\ UNCHANGED nonListingVars

InitListing ==
    /\ ListingIdle
    /\ DriverIdle
    /\ ArchiveIdle
    /\ ListIdle
    /\ ZipListIdle
    /\ OthersIdle

NextListing ==
    \/ ListArchiveFiles
    \/ ListingReturned
    \/ Tick

SpecListing == InitListing /\ [][NextListing]_vars

(***************************************************************************)
(* getZipFileList.                                                         *)
(*                                                                         *)
(* A name is a string: raw, the sequence of the bytes stored in the zip    *)
(* header; decoded, the sequence of its code points.  The bytes of the     *)
(* model are "/" (47), "\" (92), "a" (97) and 161, a byte of the upper     *)
(* half that the legacy code pages give different letters.                 *)
(***************************************************************************)
NameBytes == {47, 92, 97, 161}

RECURSIVE NamesUpTo(_)
NamesUpTo(n) ==
    IF n = 0 THEN {<<>>}
    ELSE NamesUpTo(n - 1) \cup
         {Append(nm, b) : nm \in {x \in NamesUpTo(n - 1) : Len(x) = n - 1}, b \in NameBytes}

\* Two entries of the ZipEncodings table, and no encoding.
TextEncodings == {"nil", "ibm866", "iso8859_5"}

\* charmap.CodePage866 and charmap.ISO8859_5 on one byte: ASCII is kept; 161
\* is U+0431 in code page 866 and U+0401 in ISO 8859-5.
DecodeByte(enc, b) ==
    IF b < 128 THEN b
    ELSE IF enc = "ibm866" THEN b + 912
    ELSE b + 864

\* dec.String: the decoded string and the error.  The decoders of the table
\* report no error: a byte they have no letter for becomes U+FFFD.
DecodeString(enc, raw) ==
    [str |-> [i \in 1..Len(raw) |-> DecodeByte(enc, raw[i])], err |-> FALSE]

\* util.FormSlash (package util): the name with "/" for every "\".
FormSlash(name) == [i \in 1..Len(name) |-> IF name[i] = 92 THEN 47 ELSE name[i]]

\* A listing whose names are decoded whenever an encoding is given.
getZipFileList_IgnoreFlag(files, textEncoding, readerOK) ==
    [err |-> IF readerOK THEN "nil" ELSE "zip_reader_error",
     list |-> IF ~readerOK THEN <<>>
              ELSE [i \in 1..Len(files) |->
                      [Name |-> FormSlash(IF textEncoding # "nil"
                                          THEN DecodeString(textEncoding, files[i].Name).str
                                          ELSE files[i].Name)]]]

\* The name of one entry after the loop body: decoded when the header is
\* flagged NonUTF8, an encoding is given and the decoder reports no error.
HeaderName(hdr, textEncoding) ==
    IF hdr.NonUTF8 /\ textEncoding # "nil"
    THEN LET d == DecodeString(textEncoding, hdr.Name)
         IN  IF ~d.err THEN d.str ELSE hdr.Name
    ELSE hdr.Name

getZipFileList(files, textEncoding, readerOK) ==
    IF ~readerOK
    THEN [err |-> "zip_reader_error", list |-> <<>>]
    ELSE [err |-> "nil",
          list |-> [i \in 1..Len(files) |->
                      [Name |-> FormSlash(HeaderName(files[i], textEncoding))]]]

ZipHeaders == [Name : NamesUpTo(MaxNameLen), NonUTF8 : BOOLEAN]

RECURSIVE SeqsUpTo(_, _)
SeqsUpTo(S, n) ==
    IF n = 0 THEN {<<>>}
    ELSE SeqsUpTo(S, n - 1) \cup
         {Append(q, x) : q \in {y \in SeqsUpTo(S, n - 1) : Len(y) = n - 1}, x \in S}

ZipListReqs ==
    [files : SeqsUpTo(ZipHeaders, MaxEntries), textEncoding : TextEncodings,
     readerOK : BOOLEAN]

\* One getZipFileList call.
GetZipFileList ==
    /\ zret.err = "none"
    /\ zret' = getZipFileList(zreq.files, zreq.textEncoding, zreq.readerOK)
    /\ UNCHANGED zreq
    /\ UNCHANGED nonZipListVars

InitZipList ==
    /\ zreq \in ZipListReqs
    /\ zret = NoZipListRet
    /\ DriverIdle
    /\ ArchiveIdle
    /\ ListIdle
    /\ ListingIdle
    /\ OthersIdle

NextZipList == GetZipFileList

SpecZipList == InitZipList /\ [][NextZipList]_vars

(***************************************************************************)
(* Properties of the driver calls.                                         *)
(***************************************************************************)
Done(op) == pc = "done" /\ req.op = op

Range(f) == {f[i] : i \in DOMAIN f}

\* The call fetched the metadata of the object at the request's path, once.
HeadFetched ==
    /\ Len(calls) = 1
    /\ calls[1].api = "HeadObject"
    /\ calls[1].keys = <<req.path>>

C2_OneURLPerChunk ==
    (Done("Token") /\ ret.err = "nil") =>
        LET S == ChunkSizeOf(req.policyChunk)
            n == Len(ret.urls)
        IN  /\ S > 0
            /\ n * S >= req.size
            /\ n = 0 \/ (n - 1) * S < req.size
            /\ ret.complete = 1

\* A successful Token whose last chunk is shorter than the others.
C2_Witness ==
    /\ Done("Token")
    /\ ret.err = "nil"
    /\ Len(ret.urls) = 2
    /\ req.size = 4
    /\ ChunkSizeOf(req.policyChunk) = 3
    /\ ret.complete = 1

\* C3: in Token the duplicate check comes first: the first backend call is
\* the metadata lookup of the destination, and when it finds an object Token
\* returns the file-exists error with no multipart upload created, no URL
\* signed and the session's ChunkSize, Callback and UploadID unchanged.
C3_DuplicateCheckFirst ==
    Done("Token") =>
        /\ Len(calls) >= 1
        /\ calls[1].api = "HeadObject"
        /\ calls[1].keys = <<req.path>>
        /\ calls[1].resp = "found" =>
              /\ ret.err = "ErrFileExisted"
              /\ Len(calls) = 1
              /\ ret.urls = <<>>
              /\ ret.complete = 0
              /\ session = SessionOf(req)

\* A Token that met an existing object.
C3_Witness ==
    /\ Done("Token")
    /\ Len(calls) = 1
    /\ calls[1].resp = "found"
    /\ ret.err = "ErrFileExisted"
    /\ session = FreshSession

\* C4: Put without overwrite checks for a duplicate before any transfer
\* (an existing object gives ErrFileExisted and no upload); Put with
\* overwrite skips the check and uploads; the reader is closed either way.
C4_PutChecksBeforeTransfer ==
    Done("Put") =>
        /\ closed
        /\ ~req.overwrite =>
              /\ calls[1].api = "HeadObject"
              /\ calls[1].keys = <<req.path>>
              /\ calls[1].resp = "found" =>
                    /\ ret.err = "ErrFileExisted"
                    /\ \A i \in DOMAIN calls : calls[i].api # "Upload"
        /\ req.overwrite =>
              /\ \A i \in DOMAIN calls : calls[i].api # "HeadObject"
              /\ Cardinality({i \in DOMAIN calls : calls[i].api = "Upload"}) = 1

\* A Put without overwrite that met an existing object.
C4_Witness ==
    /\ Done("Put")
    /\ ~req.overwrite
    /\ calls[1].resp = "found"
    /\ ret.err = "ErrFileExisted"
    /\ closed

\* The keys a Delete's backend reported as not found: by the error of a
\* single delete, or in the error list of a batch response.
NotFoundKeys ==
    {k \in Range(req.files) :
        \E i \in DOMAIN calls :
            \/ calls[i].api = "DeleteObject" /\ calls[i].keys = <<k>>
                  /\ calls[i].resp = "NoSuchKey"
            \/ calls[i].api = "DeleteObjects" /\ calls[i].resp = "ok"
                  /\ \E j \in DOMAIN calls[i].errs :
                        calls[i].errs[j] = [key |-> k, code |-> "NoSuchKey"]}

\* C5 as stated: a key the backend reports as not found is never in the
\* returned failed list, in a group of one and in a multi-key batch alike,
\* and a Delete whose only trouble is such keys returns a nil error.
C5_NotFoundIsSuccess ==
    Done("Delete") =>
        /\ \A k \in NotFoundKeys : k \notin Range(ret.failed)
        /\ (\A i \in DOMAIN calls :
               calls[i].resp \in {"ok", "NoSuchKey"}
               /\ \A j \in DOMAIN calls[i].errs : calls[i].errs[j].code = "NoSuchKey")
              => ret.err = "nil"

\* ceil(n / b) as the least c with c * b >= n.
IsCeilDiv(c, n, b) == c * b >= n /\ (c = 0 \/ (c - 1) * b < n)

RECURSIVE Flatten(_)
Flatten(ss) == IF ss = <<>> THEN <<>> ELSE Head(ss) \o Flatten(Tail(ss))

\* Delete of 1500 keys with the default batch size, every key deleted.
BigDelete ==
    DeleteRun([i \in 1..1500 |-> i], 0, [i \in 1..1500 |-> "ok"], {})

\* C6: Delete of n keys with effective batch size b issues exactly
\* ceil(n / b) backend calls, each with at most b keys, together covering
\* every key exactly once; a group of exactly one key goes through the
\* single-object delete; 1500 keys with batch size 1000 make 2 calls.
C6_OneCallPerBatch ==
    /\ Len(BigDelete.calls) = 2
    /\ Done("Delete") =>
          LET b == EffBatch(req.batch)
          IN  /\ IsCeilDiv(Len(calls), Len(req.files), b)
              /\ \A i \in DOMAIN calls :
                    /\ Len(calls[i].keys) \in 1..b
                    /\ Len(calls[i].keys) = 1 <=> calls[i].api = "DeleteObject"
                    /\ Len(calls[i].keys) > 1 <=> calls[i].api = "DeleteObjects"
              /\ Flatten([i \in DOMAIN calls |-> calls[i].keys]) = req.files

\* A Delete of three keys in a batch of two and a single delete.
C6_Witness ==
    /\ Done("Delete")
    /\ Len(req.files) = 3
    /\ EffBatch(req.batch) = 2
    /\ Len(calls) = 2
    /\ calls[1].api = "DeleteObjects"
    /\ calls[2].api = "DeleteObject"

\* The keys whose deletion failed: the key of a failed single delete, all
\* keys of a batch whose call failed, each key of a batch response's errors.
FailedKeys ==
    {k \in Range(req.files) :
        \E i \in DOMAIN calls :
            \/ calls[i].api = "DeleteObject" /\ calls[i].keys = <<k>>
                  /\ calls[i].resp = "error"
            \/ calls[i].api = "DeleteObjects" /\ calls[i].resp = "error"
                  /\ k \in Range(calls[i].keys)
            \/ calls[i].api = "DeleteObjects" /\ calls[i].resp = "ok"
                  /\ \E j \in DOMAIN calls[i].errs : calls[i].errs[j].key = k}

\* The keys the backend deleted.
DeletedKeys ==
    {k \in Range(req.files) :
        \E i \in DOMAIN calls :
            /\ k \in Range(calls[i].keys)
            /\ calls[i].resp = "ok"
            /\ \A j \in DOMAIN calls[i].errs : calls[i].errs[j].key # k}

\* C7: a failure in Delete never aborts the remaining work: every group is
\* sent to the backend whatever happened to the groups before it, and the
\* returned failed list holds exactly the keys whose deletion failed, each
\* once, and no key that was deleted.
C7_FailuresDoNotAbort ==
    Done("Delete") =>
        LET groups == Chunk(req.files, EffBatch(req.batch))
        IN  /\ Len(calls) = Len(groups)
            /\ \A g \in DOMAIN groups : calls[g].keys = groups[g]
            /\ Range(ret.failed) = FailedKeys
            /\ Len(ret.failed) = Cardinality(FailedKeys)
            /\ Range(ret.failed) \cap DeletedKeys = {}

\* A Delete whose first batch failed as a whole, whose second batch had one
\* key fail, and whose last key was still deleted.
C7_Witness ==
    /\ Done("Delete")
    /\ Len(calls) >= 2
    /\ calls[1].api = "DeleteObjects"
    /\ calls[1].resp = "error"
    /\ calls[Len(calls)].resp = "ok"
    /\ Len(calls[Len(calls)].errs) = 1
    /\ DeletedKeys # {}
    /\ Len(ret.failed) = Len(calls[1].keys) + 1

\* C8 as stated: the TTL handed to the signer by Source and Thumb is 604800
\* when no expiry is given, the seconds until the expiry when one is given,
\* and never negative (an expiry that would give less than 0 gives 7 days).
C8_TTLNeverNegative ==
    (Done("Source") \/ Done("Thumb")) =>
        LET ttl == calls[1].arg
        IN  /\ calls[1].api = "PresignGET"
            /\ ~req.hasExpire => ttl = DefaultTTL
            /\ (req.hasExpire /\ TruncSeconds(req.delta) >= 0)
                  => ttl = TruncSeconds(req.delta)
            /\ (req.hasExpire /\ TruncSeconds(req.delta) < 0) => ttl = DefaultTTL
            /\ ttl >= 0

\* C9: CancelToken issues exactly one abort-multipart-upload request, for
\* the session's UploadID and SavePath, and returns its result: nil when the
\* abort succeeded, an error when it failed.
C9_CancelPropagates ==
    Done("CancelToken") =>
        /\ Len(calls) = 1
        /\ calls[1].api = "AbortMultipartUpload"
        /\ calls[1].arg = session.UploadID
        /\ calls[1].arg = req.uploadID
        /\ calls[1].keys = <<req.path>>
        /\ ret.err = "nil" <=> calls[1].resp = "ok"

\* A CancelToken whose abort failed and that returned the error.
C9_Witness ==
    /\ Done("CancelToken")
    /\ Len(calls) = 1
    /\ calls[1].resp = "error"
    /\ ret.err = "abort_error"

(***************************************************************************)
(* Properties of CreateArchive.                                            *)
(***************************************************************************)
\* The size ceiling was crossed at some file of the run.
CeilingCrossed == arch.MaxArchiveSize > 0 /\ compressed > arch.MaxArchiveSize

\* C10: a per-file failure does not abort CreateArchive.  In every run whose
\* roots all resolve and that stays under the size ceiling, whatever files
\* failed: the call returns a nil error, every root and every descendant was
\* visited, the returned failed count is the number of files whose
\* compression failed, and (outside dry-run mode) the archive holds one
\* complete entry for every file that did not fail.
C10_FailureDoesNotAbort ==
    (apc = "done" /\ aret.err # "get_error" /\ ~CeilingCrossed) =>
        /\ aret.err = "nil"
        /\ idx = arch.n + 1
        /\ seen.unvisited = 0
        /\ aret.failed = seen.failing
        /\ ~arch.DryRun => zip.entries = seen.ok

\* Three files, one of which failed while its source was read: the call
\* returned failed = 1 and nil, and the archive holds the other two.
C10_Witness ==
    /\ apc = "done"
    /\ ~arch.DryRun
    /\ seen.failing = 1
    /\ zip.cut = 1
    /\ seen.ok = 2
    /\ aret = [failed |-> 1, err |-> "nil"]
    /\ zip.entries = 2

\* C11: once the cumulative size crosses a positive MaxArchiveSize the whole
\* call is over: it has returned ErrArchiveSrcSizeTooBig and no further file
\* of any root is processed, whether the crossing file was a top-level root
\* or a descendant met while walking a directory root.
C11_CeilingAbortsWholeCall ==
    CeilingCrossed =>
        /\ apc = "done"
        /\ aret.err = "ErrArchiveSrcSizeTooBig"

\* C12: a call that ends with the size-exceeded error has not written the
\* closing central directory: the output holds no finalized archive.
C12_NoArchiveOnSizeAbort ==
    (apc = "done" /\ aret.err = "ErrArchiveSrcSizeTooBig") => ~zip.closed

\* C13: in dry-run mode the callback has been called once for every file
\* visited so far, and nothing at all has been written to the output.
C13_DryRunWritesNothing ==
    arch.DryRun =>
        /\ dryCalls = seen.ok + seen.failing
        /\ ~zip.written

(***************************************************************************)
(* Token after the multipart upload exists.                                *)
(***************************************************************************)
\* The Token call created a multipart upload and then failed to sign a URL.
SignFailedAfterCreate ==
    /\ Done("Token")
    /\ ret.err = "sign_error"
    /\ \E i \in DOMAIN calls :
          calls[i].api = "CreateMultipartUpload" /\ calls[i].resp = "ok"

\* C20: when Token fails at signing after the multipart upload was created,
\* it has tried to abort that upload before returning (and returns the
\* signing error): no created upload is left without an abort attempt.
C20_AbortAfterSignFailure ==
    SignFailedAfterCreate =>
        \E i \in DOMAIN calls :
           /\ calls[i].api = "AbortMultipartUpload"
           /\ calls[i].arg = session.UploadID

(***************************************************************************)
(* Properties of Driver.List.                                              *)
(***************************************************************************)
\* Every request sent so far carries the delimiter of the mode: "/" in
\* non-recursive mode, none in recursive mode.
DelimiterOfMode ==
    \A i \in DOMAIN sent :
       sent[i].Delimiter = IF lreq.recursive THEN "" ELSE "/"

DirEntries == SelectSeq(lret.res, LAMBDA e : e.IsDir)

ListReturned == lpc = "done" /\ lret.err = "nil"

\* C19 as claimed: every list request of a non-recursive List carries the
\* delimiter "/" and the directory entries of the result are exactly the
\* common prefixes the backend returned; a recursive List sends no delimiter
\* and returns no directory entry.
C19_DirsAreCommonPrefixes ==
    /\ DelimiterOfMode
    /\ ListReturned =>
          /\ Len(DirEntries) = Len(commons)
          /\ \A i \in DOMAIN commons :
                DirEntries[i].RelativePath = RelPath(opt.Prefix, commons[i])
          /\ lreq.recursive => DirEntries = <<>>

\* The common prefixes that are rooted exactly when the listing prefix is.
RelativeCommons ==
    SelectSeq(commons, LAMBDA c : (c[1] = "/") = (opt.Prefix # <<>> /\ opt.Prefix[1] = "/"))

\* C19, amended: as above, but the directory entries are the returned common
\* prefixes that can be written relative to the listing prefix, in order; a
\* common prefix that begins with "/" under an unrooted prefix is left out.
C19_DirsAreRelativeCommonPrefixes ==
    /\ DelimiterOfMode
    /\ ListReturned =>
          /\ Len(DirEntries) = Len(RelativeCommons)
          /\ \A i \in DOMAIN RelativeCommons :
                DirEntries[i].RelativePath = RelPath(opt.Prefix, RelativeCommons[i])
          /\ lreq.recursive => DirEntries = <<>>

\* A non-recursive List of the whole bucket over three pages: the backend
\* returned the common prefixes "/" and "a/", the result has the directory a.
C19_Witness ==
    /\ ListReturned
    /\ ~lreq.recursive
    /\ Len(sent) = 3
    /\ commons = << <<"/">>, <<"a", "/">> >>
    /\ Len(DirEntries) = 1
    /\ DirEntries[1].RelativePath = <<"a">>

(***************************************************************************)
(* Properties of ListArchiveFiles.                                         *)
(***************************************************************************)
\* The step is one ListArchiveFiles call.
ListingStep == lacalls' = lacalls + 1

ListingCalled == laret.err # "none"

KeyOf(c) == getArchiveListCacheKey(c.entity, c.zipEncoding)

Decoded(r) == \E i \in DOMAIN r.trace : r.trace[i] = "decode"

\* The call passed every check made before the cache lookup.
PassedChecks(r) == Len(r.trace) > 1

\* C14: a call for a key made less than 3600 s after that key's listing was
\* decoded and stored returns the stored listing and decodes nothing; a
\* call that succeeds when the key has no entry, or more than 3600 s after
\* the entry was stored, has decoded, and has stored what it returns for
\* another 3600 s.
C14_CachedForTTL ==
    [][ (ListingStep /\ PassedChecks(laret')) =>
           LET k == KeyOf(lacall')
           IN  /\ (k \in DOMAIN kv /\ now < kv[k].expire) =>
                     /\ laret'.err = "nil"
                     /\ laret'.list = kv[k].val
                     /\ ~Decoded(laret')
                     /\ kv' = kv
               /\ ((k \notin DOMAIN kv \/ now > kv[k].expire) /\ laret'.err = "nil") =>
                     /\ Decoded(laret')
                     /\ k \in DOMAIN kv'
                     /\ kv'[k] = [val |-> laret'.list, expire |-> now + 3600]
      ]_vars

\* The second call for a key, made 3599 s after the first one decoded it:
\* it returned the stored listing without decoding.
C14_Witness ==
    /\ lacalls = 2
    /\ laret.err = "nil"
    /\ laret.trace = <<"fs.Get", "kv.Get:hit">>
    /\ KeyOf(lacall) \in DOMAIN kv
    /\ kv[KeyOf(lacall)].expire - now = 1

\* The file of the latest call is larger than its caller's group allows.
OverLimit == lacall.DecompressSize > 0 /\ lacall.size > lacall.DecompressSize

\* The key of the latest call has an entry that has not expired.
LiveEntry ==
    /\ KeyOf(lacall) \in DOMAIN kv
    /\ now < kv[KeyOf(lacall)].expire

\* C15: a call on a file (one that fs.Get resolved to a file) larger than a
\* positive DecompressSize returns ErrFileSizeTooBig having done nothing but
\* resolve the file: no cache lookup, no entity source, no decoder, whatever
\* the cache holds; with DecompressSize 0 no call is rejected for its size.
C15_SizeCheckedBeforeAnyRead ==
    /\ (ListingCalled /\ OverLimit
            /\ laret.err \notin {"get_error", "ErrNotSupportedAction: not a file"}) =>
          /\ laret.err = "ErrFileSizeTooBig"
          /\ laret.list = NoListing
          /\ laret.trace = <<"fs.Get">>
    /\ lacall.DecompressSize = 0 => laret.err # "ErrFileSizeTooBig"

\* A file over the limit whose entity has a live cached listing: rejected
\* without a look at the cache.
C15_Witness ==
    /\ lacalls = 2
    /\ OverLimit
    /\ LiveEntry
    /\ laret.err = "ErrFileSizeTooBig"
    /\ laret.trace = <<"fs.Get">>

\* The latest call was on a file that is neither a zip nor a 7z, and none of
\* its collaborators failed and no earlier check rejected it.
NotAnArchive ==
    /\ ListingCalled
    /\ lacall.ext \notin {"zip", "7z"}
    /\ laret.err \notin {"get_error", "ErrNotSupportedAction: not a file",
                         "ErrFileSizeTooBig", "ErrEntityNotExist",
                         "ErrNotSupportedAction: zip encoding", "source_error"}

\* C16 as claimed: a call on a file that is neither a zip nor a 7z ends with
\* the not-supported error and returns no listing, whatever the cache holds.
C16_OtherFormatsRejected ==
    NotAnArchive =>
        /\ laret.err = "ErrNotSupportedAction: archive format"
        /\ laret.list = NoListing

\* C16, amended: such a call ends with the not-supported error and returns
\* no listing when the cache has no entry for (entity, encoding) or an
\* expired one; when the cache has a live entry, the call returns that
\* listing and never looks at the extension.
C16_OtherFormatsRejectedOnMiss ==
    NotAnArchive =>
        /\ LiveEntry =>
              /\ laret.err = "nil"
              /\ laret.list = kv[KeyOf(lacall)].val
        /\ (KeyOf(lacall) \notin DOMAIN kv \/ now > kv[KeyOf(lacall)].expire) =>
              /\ laret.err = "ErrNotSupportedAction: archive format"
              /\ laret.list = NoListing

\* An entity listed as a zip, then asked for through a file named .txt while
\* the entry is live: the call returned the zip's listing.
C16_Witness ==
    /\ lacalls = 2
    /\ lacall.ext = "txt"
    /\ LiveEntry
    /\ laret.err = "nil"
    /\ laret.list = [entity |-> lacall.entity, enc |-> <<>>, ext |-> "zip"]

\* The encoding a call's zipEncoding names: none, or the table's entry.
EncodingOf(c) == IF c.zipEncoding = <<>> THEN <<>> ELSE ToLower(c.zipEncoding)

\* C17: a call that returns a listing returns one decoded for its own entity
\* under its own encoding; a call changes no cache entry but the one of its
\* own (entity, encoding), and removes none; a call for an entity of which
\* the cache holds no listing does not hit the cache.
C17_KeyedByEntityAndEncoding ==
    [][ ListingStep =>
           /\ laret'.err = "nil" =>
                 /\ laret'.list.entity = lacall'.entity
                 /\ laret'.list.enc = EncodingOf(lacall')
           /\ \A k \in DOMAIN kv : k \in DOMAIN kv'
           /\ \A k \in DOMAIN kv' :
                 (k \notin DOMAIN kv \/ kv'[k] # kv[k]) =>
                    /\ kv'[k].val.entity = lacall'.entity
                    /\ kv'[k].val.enc = EncodingOf(lacall')
           /\ (\A k \in DOMAIN kv : kv[k].val.entity # lacall'.entity) =>
                 \A i \in DOMAIN laret'.trace : laret'.trace[i] # "kv.Get:hit"
      ]_vars

\* Entity 1 was listed under gbk; the call for another entity under gbk
\* missed the cache, decoded, and left the entry of entity 1 as it was.
C17_Witness ==
    /\ lacalls = 2
    /\ lacall.entity = MaxEntity
    /\ lacall.zipEncoding = <<"g", "b", "k">>
    /\ laret.err = "nil"
    /\ laret.trace[2] = "kv.Get:miss"
    /\ Cardinality(DOMAIN kv) = 2
    /\ \E k \in DOMAIN kv : kv[k].val = [entity |-> 1, enc |-> <<"g", "b", "k">>, ext |-> "zip"]

(***************************************************************************)
(* Properties of getZipFileList.                                           *)
(***************************************************************************)
ZipListed == zret.err = "nil"

\* C18: every entry is listed under its raw name decoded with the given
\* encoding when the entry is flagged non-UTF-8 and an encoding is given,
\* and under its raw name otherwise; in both cases with "/" for "\".
C18_NameDecodedWhenFlagged ==
    ZipListed =>
        /\ Len(zret.list) = Len(zreq.files)
        /\ \A i \in DOMAIN zreq.files :
              LET hdr == zreq.files[i]
              IN  zret.list[i].Name =
                     FormSlash(IF hdr.NonUTF8 /\ zreq.textEncoding # "nil"
                               THEN [j \in 1..Len(hdr.Name) |->
                                        DecodeByte(zreq.textEncoding, hdr.Name[j])]
                               ELSE hdr.Name)

\* An entry named by the bytes 161 "\" and flagged non-UTF-8, listed under
\* code page 866: U+0431 "/".
C18_Witness ==
    /\ ZipListed
    /\ zreq.textEncoding = "ibm866"
    /\ zreq.files = << [Name |-> <<161, 92>>, NonUTF8 |-> TRUE] >>
    /\ zret.list = << [Name |-> <<1073, 47>>] >>

(***************************************************************************)
(* Released sources, swallowed errors, and the error Delete returns.       *)
(***************************************************************************)
\* C22: when CreateArchive has returned, every entity source it opened in
\* compressFileToArchive has been closed, whatever became of the file.
C22_SourcesReleased ==
    apc = "done" => es.released = es.opened

\* The duplicate check of the call failed for another reason than the
\* object being absent.
DuplicateCheckBroke ==
    /\ Done("Put") \/ Done("Token")
    /\ Len(calls) > 0
    /\ calls[1].api = "HeadObject"
    /\ calls[1].resp = "error"

\* C23: when the metadata lookup that checks for a duplicate fails for
\* another reason than the object being absent, Put and Token return an
\* error and send nothing else to the backend.
C23_LookupErrorReturned ==
    DuplicateCheckBroke =>
        /\ ret.err # "nil"
        /\ Len(calls) = 1

\* C25: Delete returns a non-nil error exactly when its failed list is not
\* empty.
C25_ErrorIffFailed ==
    Done("Delete") => ((ret.err # "nil") <=> (ret.failed # <<>>))

(***************************************************************************)
(* Concurrent driver calls on one bucket.  Put and Token are two backend   *)
(* calls each: the duplicate check (HeadObject) and then the upload        *)
(* (Put) or the creation of the multipart upload (Token); the driver holds *)
(* no lock between them, so the calls of several callers interleave at     *)
(* these two steps.  Here the backend answers HeadObject from the bucket   *)
(* as it is at that moment.  held[p] lists who wrote the object at path p, *)
(* the latest writer last.                                                 *)
(***************************************************************************)
Callers == 1..MaxCallers

\* The writer of an object that was in the bucket before any of the calls.
Before == MaxCallers + 1

RaceReqs ==
    [op : {"Put"}, path : 1..MaxPaths, overwrite : BOOLEAN]
        \cup [op : {"Token"}, path : 1..MaxPaths, overwrite : {FALSE}]

\* Put's and Token's duplicate check: Meta answers without error exactly
\* when there is an object at the path.
RaceCheck(c) ==
    /\ rpc[c] = "check"
    /\ IF rreq[c].overwrite
       THEN /\ rpc' = [rpc EXCEPT ![c] = "act"]
            /\ rret' = rret
       ELSE IF held[rreq[c].path] # <<>>
            THEN /\ rpc' = [rpc EXCEPT ![c] = "done"]
                 /\ rret' = [rret EXCEPT ![c] = "ErrFileExisted"]
            ELSE /\ rpc' = [rpc EXCEPT ![c] = "act"]
                 /\ rret' = rret
    /\ UNCHANGED <<rreq, held, uploads>>
    /\ UNCHANGED nonRaceVars

\* Put's UploadWithContext: the object at the path is replaced.
RacePut(c) ==
    /\ rpc[c] = "act"
    /\ rreq[c].op = "Put"
    /\ \E ok \in BOOLEAN :
        /\ held' = IF ok
                   THEN [held EXCEPT ![rreq[c].path] = Append(@, c)]
                   ELSE held
        /\ rret' = [rret EXCEPT ![c] = IF ok THEN "nil" ELSE "error"]
    /\ rpc' = [rpc EXCEPT ![c] = "done"]
    /\ UNCHANGED <<rreq, uploads>>
    /\ UNCHANGED nonRaceVars

\* Token's CreateMultipartUpload and what follows: the upload exists once
\* the call succeeded, credentials are returned when the signing succeeded.
RaceToken(c) ==
    /\ rpc[c] = "act"
    /\ rreq[c].op = "Token"
    /\ \E out \in {"ok", "create failed", "sign failed"} :
        /\ uploads' = IF out = "create failed"
                      THEN uploads
                      ELSE uploads \cup {<<c, rreq[c].path>>}
        /\ rret' = [rret EXCEPT ![c] = IF out = "ok" THEN "nil" ELSE "error"]
    /\ rpc' = [rpc EXCEPT ![c] = "done"]
    /\ UNCHANGED <<rreq, held>>
    /\ UNCHANGED nonRaceVars

InitRace ==
    /\ rreq \in [Callers -> RaceReqs]
    /\ rpc = [c \in Callers |-> "check"]
    /\ rret = [c \in Callers |-> "none"]
    /\ held \in [1..MaxPaths -> {<<>>, <<Before>>}]
    /\ uploads = {}
    /\ DriverIdle
    /\ ArchiveIdle
    /\ ListIdle
    /\ ListingIdle
    /\ ZipListIdle
    /\ SMTPIdle
    /\ DBIdle
    /\ PatchIdle

NextRace ==
    \/ \E c \in Callers : RaceCheck(c)
    \/ \E c \in Callers : RacePut(c)
    \/ \E c \in Callers : RaceToken(c)

SpecRace == InitRace /\ [][NextRace]_vars

\* The call of c went past the duplicate check and wrote the object or got
\* credentials for its path.
Passed(c) ==
    /\ rpc[c] = "done"
    /\ rret[c] = "nil"

\* C21: of the calls without overwrite that target one path, at most one
\* passes the duplicate check and uploads or gets credentials, and no object
\* is replaced by a call without overwrite.
C21_AtMostOnePasses ==
    /\ \A c1, c2 \in Callers :
        (/\ c1 # c2
         /\ rreq[c1].path = rreq[c2].path
         /\ ~rreq[c1].overwrite
         /\ ~rreq[c2].overwrite) => ~(Passed(c1) /\ Passed(c2))
    /\ \A p \in 1..MaxPaths : \A i \in 2..Len(held[p]) :
        rreq[held[p][i]].overwrite

(***************************************************************************)
(* Paging of Driver.List.                                                  *)
(***************************************************************************)
\* Everything the backend lists under the prefix of the call, in key order.
FullListing == ListItems(lreq.bucket, [opt EXCEPT !.Marker = <<>>])

KeysOf(items) == [i \in 1..Len(items) |-> items[i].key]

AllKeys == KeysOf(SelectSeq(FullListing, LAMBDA it : ~it.dir))

AllCommons == KeysOf(SelectSeq(FullListing, LAMBDA it : it.dir))

FileEntries == SelectSeq(lret.res, LAMBDA e : ~e.IsDir)

\* The first request carries no marker, every later one the marker the page
\* before it returned, and that page was truncated; a List that returned a
\* result stopped at a page that was not truncated.
MarkersFollow ==
    /\ \A i \in DOMAIN sent :
          IF i = 1
          THEN sent[i].Marker = <<>>
          ELSE LET before == ListObjects(lreq.bucket, sent[i - 1], lreq.page)
               IN  /\ before.IsTruncated
                   /\ sent[i].Marker = before.NextMarker
    /\ ListReturned =>
          ~ListObjects(lreq.bucket, sent[Len(sent)], lreq.page).IsTruncated

\* The result has one entry for each of the keys and of the common prefixes
\* given, in their order, and no other entry.
ResultIs(keys, prefixes) ==
    /\ Len(FileEntries) = Len(keys)
    /\ \A i \in DOMAIN keys : FileEntries[i].Source = keys[i]
    /\ Len(DirEntries) = Len(prefixes)
    /\ \A i \in DOMAIN prefixes :
          DirEntries[i].RelativePath = RelPath(opt.Prefix, prefixes[i])

\* C24 as claimed: List follows the markers to the first page that is not
\* truncated and ends; its result holds every object key and every common
\* prefix the backend lists under the prefix exactly once, in both modes.
C24_EveryListedItemOnce ==
    /\ [](MarkersFollow /\ (ListReturned => ResultIs(AllKeys, AllCommons)))
    /\ <>(lpc = "done")

\* The keys that are rooted exactly when the listing prefix is.
Relative(keys) ==
    SelectSeq(keys, LAMBDA k : (k[1] = "/") = (opt.Prefix # <<>> /\ opt.Prefix[1] = "/"))

\* C24, amended: as above, but the result holds exactly the listed keys and
\* common prefixes that can be written relative to the listing prefix; one
\* that begins with "/" under an unrooted prefix is left out.
C24_EveryRelativeItemOnce ==
    /\ [](MarkersFollow
            /\ (ListReturned => ResultIs(Relative(AllKeys), Relative(AllCommons))))
    /\ <>(lpc = "done")

\* A recursive List of the five keys of the bucket in three pages of two:
\* the result has the four keys that do not begin with "/".
C24_Witness ==
    /\ ListReturned
    /\ lreq.recursive
    /\ lreq.bucket = BucketKeys
    /\ Len(sent) = 3
    /\ sent[3].Marker = <<"a", "/", "b">>
    /\ Len(FileEntries) = 4

(***************************************************************************)
(* The SMTP pool (package email).                                          *)
(*                                                                         *)
(* NewSMTPPool makes the channel and starts the worker goroutine.  Send    *)
(* calls, Close and the worker run concurrently and share the channel      *)
(* client.ch and the flag client.chOpen; the flag is read and written      *)
(* without synchronisation.  Each message m in Msgs stands for one Send    *)
(* call.  A Send is two steps, the test of chOpen and the write to the     *)
(* channel; a turn of the worker's loop is one step.  The mail server is   *)
(* not part of the program: dialing and sending are answered by the        *)
(* environment.  `log` records what the worker did with the mail client.   *)
(***************************************************************************)
Msgs == 1..MaxMsgs

\* An entry of the log: what was done, for which message, and how it went.
Ev(ev, msg, res) == [ev |-> ev, msg |-> msg, res |-> res]

\* The worker has written chOpen = true at least once.
EverOpened == \E i \in DOMAIN log : log[i].ev = "start"

\* What an unsynchronised read of client.chOpen can give: the value it has,
\* or, once the worker has written to it, the value it had before.
ChOpenReads == IF EverOpened THEN BOOLEAN ELSE {chOpen}

\* Send up to the channel write: the pool must be open, mail to
\* "@login.qq.com" is dropped with a nil return, and FromFormat can fail.
SendBegin(m) ==
    /\ wpc # "none"
    /\ spc[m] = "idle"
    /\ afterClose' = [afterClose EXCEPT ![m] = chClosed]
    /\ \E flag \in ChOpenReads, to \in {"user", "login.qq.com"}, fromOK \in BOOLEAN :
          IF ~flag
          THEN /\ spc' = [spc EXCEPT ![m] = "done"]
               /\ sret' = [sret EXCEPT ![m] = "SMTP pool is closed"]
          ELSE IF to = "login.qq.com"
          THEN /\ spc' = [spc EXCEPT ![m] = "done"]
               /\ sret' = [sret EXCEPT ![m] = "nil (login.qq.com)"]
          ELSE IF ~fromOK
          THEN /\ spc' = [spc EXCEPT ![m] = "done"]
               /\ sret' = [sret EXCEPT ![m] = "from_error"]
          ELSE /\ spc' = [spc EXCEPT ![m] = "checked"]
               /\ sret' = sret
    /\ UNCHANGED <<keepalive, chOpen, ch, chClosed, wpc, open, waited, sleepLeft, log>>
    /\ UNCHANGED nonSMTPVars

\* client.ch <- &message{...}: a write to a closed channel panics, a write
\* to a full channel waits.
SendQueue(m) ==
    /\ spc[m] = "checked"
    /\ IF chClosed
       THEN /\ sret' = [sret EXCEPT ![m] = "panic"]
            /\ ch' = ch
       ELSE /\ Len(ch) < MaxQueue
            /\ ch' = Append(ch, m)
            /\ sret' = [sret EXCEPT ![m] = "nil"]
    /\ spc' = [spc EXCEPT ![m] = "done"]
    /\ UNCHANGED <<keepalive, chOpen, chClosed, wpc, open, waited, sleepLeft,
                   afterClose, log>>
    /\ UNCHANGED nonSMTPVars

\* SMTPPool.Close.
Close ==
    /\ wpc # "none"
    /\ ~chClosed
    /\ chClosed' = TRUE
    /\ UNCHANGED <<keepalive, chOpen, ch, wpc, open, waited, sleepLeft,
                   spc, sret, afterClose, log>>
    /\ UNCHANGED nonSMTPVars

\* The goroutine of Init up to its loop: mail.NewClient fails (a panic, and
\* the deferred function recovers) or succeeds and the pool is marked open.
WorkerStart ==
    /\ wpc = "start"
    /\ \E clientOK \in BOOLEAN :
          IF clientOK
          THEN /\ chOpen' = TRUE
               /\ open' = FALSE
               /\ waited' = 0
               /\ wpc' = "select"
               /\ log' = Append(log, Ev("start", 0, "ok"))
               /\ UNCHANGED sleepLeft
          ELSE /\ chOpen' = FALSE
               /\ wpc' = "sleep"
               /\ sleepLeft' = RecoverSeconds
               /\ UNCHANGED <<open, waited, log>>
    /\ UNCHANGED <<keepalive, ch, chClosed, spc, sret, afterClose>>
    /\ UNCHANGED nonSMTPVars

\* A delivery that sends on whatever connection there is.
Deliver_NoDial(isOpen, dial, res, m) ==
    [panic |-> FALSE,
     open |-> isOpen /\ res # "reset",
     events |-> <<Ev("send", m, res)>>]

\* What the worker does with a message it received: dial when the
\* connection is not open (a failure panics), then d.Send; after an SMTP
\* RESET error the connection counts as not open.
Deliver(isOpen, dial, res, m) ==
    IF ~isOpen /\ dial = "fail"
    THEN [panic |-> TRUE, open |-> FALSE, events |-> <<Ev("dial", m, "fail")>>]
    ELSE [panic |-> FALSE,
          open |-> res # "reset",
          events |-> (IF isOpen THEN <<>> ELSE <<Ev("dial", m, "ok")>>)
                        \o <<Ev("send", m, res)>>]

\* case m, ok := <-client.ch with ok: a turn of the loop for a message.
Receive ==
    /\ wpc = "select"
    /\ ch # <<>>
    /\ ch' = Tail(ch)
    /\ \E dial \in {"ok", "fail"}, res \in {"ok", "reset", "fail"} :
          LET d == Deliver(open, dial, res, Head(ch))
          IN  /\ log' = log \o d.events
              /\ open' = d.open
              /\ IF d.panic
                 THEN /\ chOpen' = FALSE
                      /\ wpc' = "sleep"
                      /\ sleepLeft' = RecoverSeconds
                      /\ UNCHANGED waited
                 ELSE /\ waited' = 0
                      /\ UNCHANGED <<chOpen, wpc, sleepLeft>>
    /\ UNCHANGED <<keepalive, chClosed, spc, sret, afterClose>>
    /\ UNCHANGED nonSMTPVars

\* case m, ok := <-client.ch with !ok: the channel is closed and drained.
ReceiveClosed ==
    /\ wpc = "select"
    /\ ch = <<>>
    /\ chClosed
    /\ chOpen' = FALSE
    /\ wpc' = "exit"
    /\ UNCHANGED <<keepalive, ch, chClosed, open, waited, sleepLeft,
                   spc, sret, afterClose, log>>
    /\ UNCHANGED nonSMTPVars

\* case <-time.After(Keepalive seconds): an open connection is closed.
Timeout ==
    /\ wpc = "select"
    /\ waited = keepalive
    /\ waited' = 0
    /\ IF open
       THEN /\ log' = Append(log, Ev("close", 0, "ok"))
            /\ open' = FALSE
       ELSE UNCHANGED <<log, open>>
    /\ UNCHANGED <<keepalive, chOpen, ch, chClosed, wpc, sleepLeft,
                   spc, sret, afterClose>>
    /\ UNCHANGED nonSMTPVars

\* A second passes for the waiting or the sleeping worker.
Second ==
    /\ \/ /\ wpc = "select"
          /\ waited < keepalive
          /\ waited' = waited + 1
          /\ UNCHANGED sleepLeft
       \/ /\ wpc = "sleep"
          /\ sleepLeft > 0
          /\ sleepLeft' = sleepLeft - 1
          /\ UNCHANGED waited
    /\ UNCHANGED <<keepalive, chOpen, ch, chClosed, wpc, open,
                   spc, sret, afterClose, log>>
    /\ UNCHANGED nonSMTPVars

\* The deferred function after its sleep: client.Init() starts the worker
\* anew, on the same channel.
Wake ==
    /\ wpc = "sleep"
    /\ sleepLeft = 0
    /\ wpc' = "start"
    /\ UNCHANGED <<keepalive, chOpen, ch, chClosed, open, waited, sleepLeft,
                   spc, sret, afterClose, log>>
    /\ UNCHANGED nonSMTPVars

\* NewSMTPPool has returned: the channel is made, the worker is started.
InitSMTP ==
    /\ keepalive \in 0..MaxKeepalive
    /\ chOpen = FALSE
    /\ ch = <<>>
    /\ chClosed = FALSE
    /\ wpc = "start"
    /\ open = FALSE
    /\ waited = 0
    /\ sleepLeft = 0
    /\ spc = [m \in Msgs |-> "idle"]
    /\ sret = [m \in Msgs |-> "none"]
    /\ afterClose = [m \in Msgs |-> FALSE]
    /\ log = <<>>
    /\ DriverIdle
    /\ ArchiveIdle
    /\ ListIdle
    /\ ListingIdle
    /\ ZipListIdle
    /\ RaceIdle
    /\ DBIdle
    /\ PatchIdle

Worker ==
    \/ WorkerStart
    \/ Receive
    \/ ReceiveClosed
    \/ Timeout
    \/ Wake

NextSMTP ==
    \/ \E m \in Msgs : SendBegin(m)
    \/ \E m \in Msgs : SendQueue(m)
    \/ Close
    \/ WorkerStart
    \/ Receive
    \/ ReceiveClosed
    \/ Timeout
    \/ Wake
    \/ Second

SpecSMTP == InitSMTP /\ [][NextSMTP]_vars

\* The worker is a goroutine of its own and the clock does not stop: the
\* worker takes the turn it can take, and seconds pass.
SpecSMTPFair == SpecSMTP /\ WF_vars(Worker) /\ WF_vars(Second)

(***************************************************************************)
(* Properties of the SMTP pool.                                            *)
(***************************************************************************)
\* C26: a Send that starts after Close is turned away with "SMTP pool is
\* closed": it does not get to the channel write, puts nothing in the
\* channel and does not panic on the closed channel.
C26_SendAfterCloseRejected ==
    \A m \in Msgs :
       afterClose[m] =>
          /\ spc[m] # "checked"
          /\ sret[m] \notin {"nil", "panic"}

\* How often the message was handed to the mail client's Send.
Handed(m) ==
    Cardinality({i \in DOMAIN log : log[i].ev = "send" /\ log[i].msg = m})

InChannel(m) == Cardinality({i \in DOMAIN ch : ch[i] = m})

\* C27: while the pool is not closed, a message whose Send returned nil
\* after queueing it is either still in the channel or has been handed to
\* the mail client, once: it is not dropped and not handed over twice, a
\* failed dial included.
C27_QueuedNotLost ==
    \A m \in Msgs :
       (sret[m] = "nil" /\ ~chClosed) => InChannel(m) + Handed(m) = 1

\* The connection the log leaves behind is up: the last thing the worker did
\* was a Send that did not end in an SMTP RESET error.
ConnUp ==
    /\ log # <<>>
    /\ log[Len(log)].ev = "send"
    /\ log[Len(log)].res # "reset"

\* A message goes to the mail client on a dialed connection: right after the
\* dial made for it, or after a Send that left the connection up.
SentOnDialed ==
    \A i \in DOMAIN log :
       log[i].ev = "send" =>
          /\ i > 1
          /\ \/ log[i - 1] = Ev("dial", log[i].msg, "ok")
             \/ log[i - 1].ev = "send" /\ log[i - 1].res # "reset"

\* After the start of the worker, a keepalive close or an SMTP RESET error,
\* the next thing the worker does with the client is one dial, for the
\* message it is about to send.
FreshDial ==
    \A i \in DOMAIN log :
       (/\ i < Len(log)
        /\ \/ log[i].ev \in {"start", "close"}
           \/ log[i].ev = "send" /\ log[i].res = "reset")
          => log[i + 1].ev = "dial"

\* The keepalive timer has run out on an open connection.
KeepaliveExpired ==
    /\ wpc = "select"
    /\ open
    /\ waited = keepalive

\* C28: the worker's `open` tells whether the connection is up; a message is
\* sent only on a dialed connection, with one fresh dial for the first
\* message after the start, a keepalive close or an SMTP RESET error; and
\* when the keepalive time has passed on an open connection with no message
\* arriving, the connection is closed and marked not open.
C28_KeepaliveAndDial ==
    /\ []((open <=> ConnUp) /\ SentOnDialed /\ FreshDial)
    /\ (KeepaliveExpired ~> (~open \/ ch # <<>> \/ chClosed))

\* The first message was sent after a dial, the connection was closed when
\* the keepalive time had passed, and the second message got a dial of its
\* own.
C28_Witness ==
    /\ Len(log) = 6
    /\ log[1].ev = "start"
    /\ log[2] = Ev("dial", 1, "ok")
    /\ log[3] = Ev("send", 1, "ok")
    /\ log[4].ev = "close"
    /\ log[5] = Ev("dial", 2, "ok")
    /\ log[6].ev = "send"
    /\ open

(***************************************************************************)
(* InitializeDBClient and the schema migration (package inventory).       *)
(*                                                                         *)
(* The database is not part of the program: each query and each write is   *)
(* answered by the environment, and at most one of them fails in a call    *)
(* (`fault` names it).  Versions are numbered 1..MaxVersion in release     *)
(* order.  `marks` holds the versions that have a db_version_ setting,     *)
(* `dbdone` what the database holds of the schema and the default rows.    *)
(* A call is one step; dbret.steps lists the steps of migrate it went      *)
(* through, each with how it ended.                                        *)
(***************************************************************************)
Versions == 1..MaxVersion

DBFaults ==
    {"none", "count", "schema", "kv", "settings query", "settings save",
     "policy", "groups", "patch query", "patch", "mark"}

\* The one patch of the list is for databases older than this version.
PatchEndVersion == 2

DBStep(name, out) == [step |-> name, out |-> out]

\* needMigration: the number of marks for the version is zero; a failed
\* count is dropped and leaves the zero.
needMigration(ms, V, fault) ==
    LET c == IF fault = "count" THEN 0 ELSE Cardinality(ms \cap {V})
    IN  c = 0

\* migrateDefaultSettings returns nothing: a kv or query failure is logged,
\* a failed insert (SaveX) panics.
migrateDefaultSettings(fault) ==
    IF fault = "settings save" THEN DBStep("settings", "panic")
    ELSE IF fault \in {"kv", "settings query"} THEN DBStep("settings", "warning")
    ELSE DBStep("settings", "ok")

\* migrateDefaultStoragePolicy, migrateSysGroups: rows that are there are
\* left alone, a failed insert is returned.
migrateRows(name, done, fault) ==
    IF name \in done THEN DBStep(name, "skipped")
    ELSE IF fault = name THEN DBStep(name, "error")
    ELSE DBStep(name, "ok")

MaxOf(S) == CHOOSE i \in S : \A j \in S : j <= i

\* applyPatches: a patch runs when the latest version applied (the version
\* required, if there is no mark) is older than the patch's EndVersion.
applyPatches(ms, V, fault) ==
    IF fault = "patch query" THEN DBStep("patches", "error")
    ELSE LET latestAppliedVersion == IF ms = {} THEN V ELSE MaxOf(ms)
         IN  IF latestAppliedVersion < PatchEndVersion
             THEN IF fault = "patch" THEN DBStep("patches", "error")
                  ELSE DBStep("patches", "ok")
             ELSE DBStep("patches", "skipped")

Failed(st) == st.out \in {"error", "panic"}

\* The steps migrate tries, in order; it stops after the first that fails.
\* The mark is written last, and a failure to write it is dropped.
migrateSteps(ms, done, V, fault) ==
    LET s1 == DBStep("schema", IF fault = "schema" THEN "error" ELSE "ok")
        s2 == migrateDefaultSettings(fault)
        s3 == migrateRows("policy", done, fault)
        s4 == migrateRows("groups", done, fault)
        s5 == applyPatches(ms, V, fault)
        s6 == DBStep("mark", IF fault = "mark" THEN "dropped error" ELSE "ok")
    IN  IF Failed(s1) THEN <<s1>>
        ELSE IF Failed(s2) THEN <<s1, s2>>
        ELSE IF Failed(s3) THEN <<s1, s2, s3>>
        ELSE IF Failed(s4) THEN <<s1, s2, s3, s4>>
        ELSE IF Failed(s5) THEN <<s1, s2, s3, s4, s5>>
        ELSE <<s1, s2, s3, s4, s5, s6>>

\* What the steps leave in the database.
RowsOf(steps) ==
    {steps[i].step : i \in {j \in DOMAIN steps : steps[j].out \in {"ok", "warning"}}}
        \ {"mark", "patches"}

Marked(steps) == \E i \in DOMAIN steps : steps[i] = DBStep("mark", "ok")

\* migrate's return: the error of the step that failed, a panic out of
\* SaveX, or nil.
migrateErr(steps) ==
    LET last == steps[Len(steps)]
    IN  IF last.out = "panic" THEN "panic"
        ELSE IF last.out = "error" THEN "failed to migrate database"
        ELSE "nil"

\* InitializeDBClient with the version V required.
InitializeDBClientRun(ms, done, V, fault) ==
    IF needMigration(ms, V, fault)
    THEN LET steps == migrateSteps(ms, done, V, fault)
         IN  [V |-> V, hadMark |-> V \in ms, migrated |-> TRUE, steps |-> steps,
              err |-> migrateErr(steps),
              marks |-> IF Marked(steps) THEN ms \cup {V} ELSE ms,
              done |-> done \cup RowsOf(steps)]
    ELSE [V |-> V, hadMark |-> V \in ms, migrated |-> FALSE, steps |-> <<>>,
          err |-> "nil", marks |-> ms, done |-> done]

InitializeDBClient ==
    /\ dbcalls < MaxInits
    /\ \E V \in Versions, fault \in DBFaults :
          LET r == InitializeDBClientRun(marks, dbdone, V, fault)
          IN  /\ dbret' = [V |-> r.V, hadMark |-> r.hadMark, migrated |-> r.migrated,
                           steps |-> r.steps, err |-> r.err]
              /\ marks' = r.marks
              /\ dbdone' = r.done
    /\ dbcalls' = dbcalls + 1
    /\ UNCHANGED nonDBVars

InitDB ==
    /\ DBIdle
    /\ DriverIdle
    /\ ArchiveIdle
    /\ ListIdle
    /\ ListingIdle
    /\ ZipListIdle
    /\ RaceIdle
    /\ SMTPIdle
    /\ PatchIdle

NextDB == InitializeDBClient

SpecDB == InitDB /\ [][NextDB]_vars

(***************************************************************************)
(* Properties of the migration.                                            *)
(***************************************************************************)
DBCalled == dbcalls > 0

StepNames(steps) == [i \in DOMAIN steps |-> steps[i].step]

\* Every step of the latest call completed without an error.
AllStepsClean ==
    /\ StepNames(dbret.steps) = <<"schema", "settings", "policy", "groups", "patches", "mark">>
    /\ \A i \in DOMAIN dbret.steps : dbret.steps[i].out \in {"ok", "skipped"}

\* C29: InitializeDBClient runs migrate exactly when the version has no mark;
\* the mark is there only if every step of migrate completed without error,
\* the mark being written last; a step that fails makes the call return an
\* error and leaves no mark; and after a migrate that succeeded the mark is
\* there, so that a second call with the same version does not migrate.
C29_MarkOnlyAfterCleanMigration ==
    DBCalled =>
       /\ dbret.migrated <=> ~dbret.hadMark
       /\ (dbret.V \in marks /\ ~dbret.hadMark) => AllStepsClean
       /\ (dbret.migrated /\ ~AllStepsClean) =>
             (dbret.err # "nil" /\ (dbret.V \in marks <=> dbret.hadMark))
       /\ (dbret.migrated /\ dbret.err = "nil") => dbret.V \in marks

(***************************************************************************)
(* manager.PatchMedata.                                                    *)
(*                                                                         *)
(* A metadata key is a string, written as a sequence of words and of the   *)
(* separator ":".  What a validator needs of the value is whether it       *)
(* passes the check the validator makes on it (a colour, a preset emoji,   *)
(* a hash id, a share uri, a value of the custom property): the field      *)
(* `valueOK` of a patch says so.  The filesystem below the manager is not  *)
(* part of the program: its PatchMetadata is answered by the environment.  *)
(***************************************************************************)
PatchKeys ==
    { <<"thumb">>,
      <<"x", ":", "a">>,
      <<"dav", ":", "a">>,
      <<"thumb", ":", "disabled">>,
      <<"customize", ":", "icon_color">>,
      <<"tag", ":", "a">>,
      <<"tag", ":">>,
      <<"sys", ":", "shared_owner">>,
      <<"sys", ":", "a">>,
      <<"props", ":", "a">> }

MetadataPatches ==
    [Key : PatchKeys, Remove : BOOLEAN, valueOK : BOOLEAN, UpdateModifiedAt : {FALSE}]

\* strings.Split(patch.Key, ":"): the number of parts, and the first part.
SplitLen(key) == Cardinality({i \in DOMAIN key : key[i] = ":"}) + 1

Category(key) ==
    LET seps == {i \in DOMAIN key : key[i] = ":"}
    IN  IF seps = {} THEN key ELSE SubSeq(key, 1, MinOf(seps) - 1)

\* The categories of the table `validators`.
Categories ==
    { <<"sys">>, <<"dav">>, <<"thumb">>, <<"customize">>, <<"tag">>, <<"props">> }

\* validateColor and the emoji validator: the patch will update the
\* modification time; a removal passes, a value must pass the check.
ValueValidator(patch) ==
    [err |-> ~patch.Remove /\ ~patch.valueOK,
     patch |-> [patch EXCEPT !.UpdateModifiedAt = TRUE]]

NoValidator(patch) == [err |-> FALSE, patch |-> patch]

\* The validator the category has for exactly this key, if any.
ExplicitValidator(patch) ==
    IF patch.Key \in {<<"customize", ":", "icon_color">>, <<"customize", ":", "emoji">>}
    THEN ValueValidator(patch)
    ELSE NoValidator(patch)

\* The validator the category has under "*", if any.
WildcardValidator(patch) ==
    LET cat == Category(patch.Key)
    IN  IF cat = <<"sys">>
        THEN IF patch.Remove
             THEN [err |-> TRUE, patch |-> patch]
             ELSE [err |-> IF patch.Key \in {<<"sys", ":", "shared_owner">>,
                                             <<"sys", ":", "shared_redirect">>}
                           THEN ~patch.valueOK
                           ELSE TRUE,
                   patch |-> [patch EXCEPT !.UpdateModifiedAt = TRUE]]
        ELSE IF cat = <<"tag">>
        THEN LET v == ValueValidator(patch)
             IN  [err |-> v.err \/ patch.Key = <<"tag", ":">>, patch |-> v.patch]
        ELSE IF cat = <<"props">>
        THEN ValueValidator(patch)
        ELSE NoValidator(patch)

\* One turn of validateMetadata's loop: the error of the patch, if any, and
\* the patch as the validators leave it.
validatePatch(patch) ==
    IF SplitLen(patch.Key) < 2
    THEN [err |-> "Invalid metadata key", patch |-> patch]
    ELSE IF Category(patch.Key) \notin Categories
    THEN [err |-> "Invalid metadata key", patch |-> patch]
    ELSE LET e == ExplicitValidator(patch)
         IN  IF e.err
             THEN [err |-> "Invalid metadata patch", patch |-> e.patch]
             ELSE LET w == WildcardValidator(e.patch)
                  IN  IF w.err
                      THEN [err |-> "Invalid metadata patch", patch |-> w.patch]
                      ELSE [err |-> "nil", patch |-> w.patch]

\* A validation that leaves out the patches it rejects.
RECURSIVE validateMetadata_SkipInvalid(_, _)
validateMetadata_SkipInvalid(data, validated) ==
    IF data = <<>> THEN [err |-> "nil", validated |-> validated]
    ELSE LET v == validatePatch(Head(data))
         IN  validateMetadata_SkipInvalid(Tail(data),
                IF v.err # "nil" THEN validated ELSE Append(validated, v.patch))

\* validateMetadata: the patches checked so far, and the first error.
RECURSIVE validateMetadata(_, _)
validateMetadata(data, validated) ==
    IF data = <<>> THEN [err |-> "nil", validated |-> validated]
    ELSE LET v == validatePatch(Head(data))
         IN  IF v.err # "nil"
             THEN [err |-> v.err, validated |-> validated]
             ELSE validateMetadata(Tail(data), Append(validated, v.patch))

\* PatchMedata: validate, then hand the validated patches to the filesystem.
PatchMedataRun(data, fsOK) ==
    LET v == validateMetadata(data, <<>>)
    IN  IF v.err # "nil"
        THEN [err |-> v.err, fsCalls |-> <<>>]
        ELSE [err |-> IF fsOK THEN "nil" ELSE "fs_error",
              fsCalls |-> <<v.validated>>]

PatchMedata ==
    /\ ppc = "idle"
    /\ \E fsOK \in BOOLEAN :
          LET r == PatchMedataRun(preq, fsOK)
          IN  /\ pret' = r.err
              /\ fsCalls' = r.fsCalls
    /\ ppc' = "done"
    /\ UNCHANGED preq
    /\ UNCHANGED nonPatchVars

PatchReqs == UNION {[1..n -> MetadataPatches] : n \in 0..MaxPatches}

InitPatch ==
    /\ preq \in PatchReqs
    /\ ppc = "idle"
    /\ pret = "none"
    /\ fsCalls = <<>>
    /\ DriverIdle
    /\ ArchiveIdle
    /\ ListIdle
    /\ ListingIdle
    /\ ZipListIdle
    /\ RaceIdle
    /\ SMTPIdle
    /\ DBIdle

NextPatch == PatchMedata

SpecPatch == InitPatch /\ [][NextPatch]_vars

(***************************************************************************)
(* Properties of PatchMedata.                                              *)
(***************************************************************************)
\* The patch has a key without separator, a key of an unknown category, or
\* fails the explicit or the wildcard validator of its category.
Invalid(patch) ==
    \/ \A i \in DOMAIN patch.Key : patch.Key[i] # ":"
    \/ Category(patch.Key) \notin Categories
    \/ ExplicitValidator(patch).err
    \/ WildcardValidator(patch).err

\* The patches handed to the filesystem are those of the call, in order.
SamePatches(got, given) ==
    /\ Len(got) = Len(given)
    /\ \A i \in DOMAIN given :
          /\ got[i].Key = given[i].Key
          /\ got[i].Remove = given[i].Remove
          /\ got[i].valueOK = given[i].valueOK

\* C30: when any patch of the call is invalid, PatchMedata returns a
\* parameter error and the filesystem's PatchMetadata is not called; when
\* all patches are valid it is called once, with every patch of the call in
\* the order given.
C30_AllOrNothing ==
    ppc = "done" =>
       IF \E i \in DOMAIN preq : Invalid(preq[i])
       THEN /\ pret \in {"Invalid metadata key", "Invalid metadata patch"}
            /\ fsCalls = <<>>
       ELSE /\ Len(fsCalls) = 1
            /\ SamePatches(fsCalls[1], preq)

\* A call with a valid patch followed by the key "tag:" was turned down as a
\* whole: the filesystem was not called for the first patch either.
C30_Witness ==
    /\ ppc = "done"
    /\ Len(preq) = 2
    /\ ~Invalid(preq[1])
    /\ preq[2].Key = <<"tag", ":">>
    /\ pret = "Invalid metadata patch"
    /\ fsCalls = <<>>

====
